---- MODULE Spec2Model ----
(***************************************************************************)
(* Route scheduling and feasibility core of the VRP solver:                *)
(*   vrp-core/src/construction/enablers/schedule_update.rs                 *)
(*   vrp-core/src/construction/enablers/departure_time.rs                  *)
(*                                                                         *)
(* Timestamps, durations and distances are integers counted in ticks of    *)
(* EPSILON (1e-6 in the source); problem data are multiples of TimeUnit    *)
(* ticks.  Activity indices are the source's (0 is the start activity);    *)
(* Get(tour, i) reads tour.get(i).                                         *)
(***************************************************************************)
EXTENDS Integers, Sequences, FiniteSets, TLC

VARIABLES
    actor,      \* route.actor: cost span, start/end detail, reserved times (immutable)
    route_ctx,  \* RouteContext: the tour and the RouteState
    op,         \* the operation that produced this state, with its arguments
    before,     \* route_ctx as it was when that operation was called
    solution_ctx \* SolutionContext: the routes with their feature data, and the state

vars == <<actor, route_ctx, op, before, solution_ctx>>

(***************************************************************************)
(* Bounds of the model and constants of the program                        *)
(***************************************************************************)
\* ticks of EPSILON per unit of problem data
TimeUnit == 4
\* largest number of job activities in a tour
MaxJobs == 2
\* the departure is advanced only while it is below this many units of problem data
MaxDeparture == 4

EPSILON == 1
MAX_ITERATIONS == 3
FloatMax == 1000000

U == TimeUnit

Abs(x) == IF x < 0 THEN -x ELSE x
Max(a, b) == IF a >= b THEN a ELSE b
Min(a, b) == IF a <= b THEN a ELSE b

(***************************************************************************)
(* Data model                                                              *)
(***************************************************************************)
NoJob == [places |-> <<>>]
HasJob(a) == a.job # NoJob

Window(s, e) == [kind |-> "Window", start |-> s, end |-> e]
Offset(s, e) == [kind |-> "Offset", start |-> s, end |-> e]
TimeWindow(s, e) == [start |-> s, end |-> e]
Schedule(arr, dep) == [arrival |-> arr, departure |-> dep]

Get(tour, i) == tour[i + 1]
Total(tour) == Len(tour)
TourStart(tour) == tour[1]
TourEnd(tour) == tour[Len(tour)]

\* TimeSpan::to_time_window: an absolute window is itself, an offset span is
\* materialised at the anchor.
to_time_window(span, anchor) ==
    IF span.kind = "Window"
    THEN TimeWindow(span.start, span.end)
    ELSE TimeWindow(anchor + span.start, anchor + span.end)

(***************************************************************************)
(* schedule_update.rs: get_offset_anchor                                   *)
(***************************************************************************)
IsFirstJobSpan(cost_span) == cost_span \in {"FirstJobToDepot", "FirstJobToLastJob"}

get_offset_anchor(tour) ==
    LET start_departure == TourStart(tour).schedule.departure
    IN  IF ~IsFirstJobSpan(actor.cost_span)
        THEN start_departure
        ELSE IF Total(tour) > 1 /\ HasJob(Get(tour, 1))
             THEN Get(tour, 1).schedule.arrival
             ELSE start_departure

(***************************************************************************)
(* Collaborators (section 4.2 and 6 of the specification): reserved times, *)
(* TransportCost and ActivityCost                                          *)
(***************************************************************************)
\* The reserved times of the actor whose interval [resolved.start, resolved.start +
\* duration), resolved against the anchor, intersects [from, to)
reserved_hits(anchor, from, to) ==
    {i \in DOMAIN actor.reserved :
        /\ to_time_window(actor.reserved[i].time, anchor).start < to
        /\ from < to_time_window(actor.reserved[i].time, anchor).start
                      + actor.reserved[i].duration}

first_reserved_duration(hits) ==
    IF hits = {} THEN 0
    ELSE actor.reserved[CHOOSE i \in hits : \A j \in hits : i <= j].duration

\* The duration of the first reserved time that intersects [from, to); 0 if none.
\* Offset reserved times are resolved against the route's current anchor.
ReservedDuration(tour, from, to) ==
    first_reserved_duration(reserved_hits(get_offset_anchor(tour), from, to))

\* transport.distance: the test transport's |to - from|
TransportDistance(from, to) == Abs(to - from)

\* transport.duration(route, from, to, TravelTime::Departure(dep)): the travel time,
\* lengthened by a reserved time that [dep, dep + travel) intersects.
TransportDurationDeparture(tour, from, to, dep) ==
    Abs(to - from) + ReservedDuration(tour, dep, dep + Abs(to - from))

\* transport.duration(route, from, to, TravelTime::Arrival(arr))
TransportDurationArrival(tour, from, to, arr) ==
    Abs(to - from) + ReservedDuration(tour, arr - Abs(to - from), arr)

Continue(v) == [flow |-> "Continue", value |-> v]
Break(v) == [flow |-> "Break", value |-> v]

estimate_departure_with(a, arrival, activity_start, departure, extra_duration) ==
    IF a.place.time.end < arrival THEN Break(departure)
    ELSE IF extra_duration = 0 THEN Continue(departure)
    ELSE IF activity_start + extra_duration > a.place.time.end THEN Break(departure)
    ELSE Continue(departure + extra_duration)

\* activity.estimate_departure(route, a, arrival): service starts at
\* max(arrival, place.time.start); reject when the window is already closed at
\* arrival or when a reserved time pushes the service past it.
EstimateDeparture(tour, a, arrival) ==
    estimate_departure_with(a, arrival,
        Max(arrival, a.place.time.start),
        Max(arrival, a.place.time.start) + a.place.duration,
        ReservedDuration(tour, arrival,
                         Max(arrival, a.place.time.start) + a.place.duration))

\* activity.estimate_arrival(route, a, latest_departure): the inverse
EstimateArrival(tour, a, latest_departure) ==
    Continue(Min(a.place.time.end, latest_departure - a.place.duration)
             - ReservedDuration(tour,
                   Min(a.place.time.end, latest_departure - a.place.duration),
                   latest_departure))

\* UnwrapValue for ControlFlow<T, T>: the carried value of either variant
unwrap_value(cf) == cf.value

(***************************************************************************)
(* schedule_update.rs: update_schedules, is_schedule_feasible              *)
(***************************************************************************)
write_schedule(tour, activity_idx, arrival, departure) ==
    [tour EXCEPT ![activity_idx + 1].schedule = Schedule(arrival, departure)]

\* (1..total).fold(init, |(loc, dep), activity_idx| ...): the tour is written as
\* the fold goes, so each step reads the schedules the steps before it wrote.
RECURSIVE update_schedules_fold(_, _, _, _)
\* Variant of update_schedules_departed in which the fold carries the arrival on,
\* not the departure: what C1 must tell apart from the code.
update_schedules_departed_at_arrival(tour, activity_idx, arrival, departure) ==
    update_schedules_fold(write_schedule(tour, activity_idx, arrival, departure),
        activity_idx + 1, Get(tour, activity_idx).place.location, arrival)

update_schedules_departed(tour, activity_idx, arrival, departure) ==
    update_schedules_fold(write_schedule(tour, activity_idx, arrival, departure),
        activity_idx + 1, Get(tour, activity_idx).place.location, departure)

\* Variant of update_schedules_arrived that departs at arrival + duration without
\* asking estimate_departure: what C2 must tell apart from the code.
update_schedules_arrived_without_wait(tour, activity_idx, arrival) ==
    update_schedules_departed(tour, activity_idx, arrival,
        arrival + Get(tour, activity_idx).place.duration)

update_schedules_arrived(tour, activity_idx, arrival) ==
    update_schedules_departed(tour, activity_idx, arrival,
        unwrap_value(EstimateDeparture(tour, Get(tour, activity_idx), arrival)))

update_schedules_fold(tour, activity_idx, loc, dep) ==
    IF activity_idx >= Total(tour) THEN tour
    ELSE update_schedules_arrived(tour, activity_idx,
            dep + TransportDurationDeparture(tour, loc,
                      Get(tour, activity_idx).place.location, dep))

update_schedules(tour) ==
    update_schedules_fold(tour, 1, TourStart(tour).place.location,
                          TourStart(tour).schedule.departure)

RECURSIVE is_schedule_feasible_from(_, _, _, _)
is_schedule_feasible_estimated(tour, activity_idx, d) ==
    IF d.flow = "Break" THEN FALSE
    ELSE is_schedule_feasible_from(tour, activity_idx + 1,
             Get(tour, activity_idx).place.location, d.value)

is_schedule_feasible_from(tour, activity_idx, loc, dep) ==
    IF activity_idx >= Total(tour) THEN TRUE
    ELSE is_schedule_feasible_estimated(tour, activity_idx,
            EstimateDeparture(tour, Get(tour, activity_idx),
                dep + TransportDurationDeparture(tour, loc,
                          Get(tour, activity_idx).place.location, dep)))

is_schedule_feasible(tour) ==
    is_schedule_feasible_from(tour, 1, TourStart(tour).place.location,
                              TourStart(tour).schedule.departure)

(***************************************************************************)
(* schedule_update.rs: update_states                                       *)
(***************************************************************************)
\* The latest arrival at act, given the latest arrival end_time at the activity
\* after it (the shift end for the last one), which is at prev_loc.
latest_arrival_time(tour, act, end_time, prev_loc) ==
    IF end_time = FloatMax THEN act.place.time.end
    ELSE unwrap_value(EstimateArrival(tour, act,
             end_time - TransportDurationArrival(tour, act.place.location,
                                                 prev_loc, end_time)))

\* Variant of future_waiting that forgets the waiting of the activities after act:
\* what C27 must tell apart from the code.
future_waiting_of_activity(act, waiting) ==
    Max(act.place.time.start - act.schedule.arrival, 0)

future_waiting(act, waiting) ==
    waiting + Max(act.place.time.start - act.schedule.arrival, 0)

\* The reverse fold; acc = <<end_time, prev_loc, waiting>>, the result is the pair
\* of vectors in pushed (reverse) order.
RECURSIVE update_states_fold(_, _, _, _, _)
update_states_push(tour, i, act, latest, waiting, latest_arrivals, waiting_times) ==
    update_states_fold(tour, i - 1, <<latest, act.place.location, waiting>>,
                       Append(latest_arrivals, latest), Append(waiting_times, waiting))

update_states_fold(tour, i, acc, latest_arrivals, waiting_times) ==
    IF i < 0 THEN <<latest_arrivals, waiting_times>>
    ELSE IF ~HasJob(Get(tour, i))
         THEN update_states_fold(tour, i - 1, acc,
                                 Append(latest_arrivals, 0), Append(waiting_times, 0))
         ELSE update_states_push(tour, i, Get(tour, i),
                  latest_arrival_time(tour, Get(tour, i), acc[1], acc[2]),
                  future_waiting(Get(tour, i), acc[3]),
                  latest_arrivals, waiting_times)

Reverse(s) == [i \in 1..Len(s) |-> s[Len(s) + 1 - i]]
Pop(s) == SubSeq(s, 1, Len(s) - 1)

\* reverse(); then the slot of a jobless last activity is popped
publish_states(rc, folded, pop) ==
    [rc EXCEPT !.latest_arrival = IF pop THEN Pop(Reverse(folded[1])) ELSE Reverse(folded[1]),
               !.waiting_time = IF pop THEN Pop(Reverse(folded[2])) ELSE Reverse(folded[2])]

update_states(rc) ==
    publish_states(rc,
        update_states_fold(rc.tour, Total(rc.tour) - 1,
                           <<actor.time_end, actor.end_location, 0>>, <<>>, <<>>),
        ~HasJob(TourEnd(rc.tour)))

(***************************************************************************)
(* schedule_update.rs: update_statistics                                   *)
(***************************************************************************)
None == [some |-> FALSE, value |-> 0]
Some(v) == [some |-> TRUE, value |-> v]

\* Variant of get_last_job_idx that takes the last activity for the last job also
\* when it is the depot: what C10 must tell apart from the code.
get_last_job_idx_of_any_end(tour, total_activities) ==
    IF total_activities <= 1 THEN None ELSE Some(total_activities - 1)

get_last_job_idx(tour, total_activities) ==
    IF total_activities <= 1 THEN None
    ELSE IF ~HasJob(TourEnd(tour))
         THEN IF total_activities > 2 THEN Some(total_activities - 2) ELSE None
         ELSE Some(total_activities - 1)

has_jobs(tour, total_activities) ==
    IF ~HasJob(TourEnd(tour)) THEN total_activities > 2 ELSE total_activities > 1

calculate_route_duration(tour, cost_span, total_activities, start, end) ==
    CASE cost_span = "DepotToDepot" ->
            end.schedule.departure - start.schedule.departure
      [] cost_span = "DepotToLastJob" ->
            IF get_last_job_idx(tour, total_activities).some
            THEN Get(tour, get_last_job_idx(tour, total_activities).value).schedule.departure
                     - start.schedule.departure
            ELSE 0
      [] cost_span = "FirstJobToDepot" ->
            IF has_jobs(tour, total_activities)
            THEN end.schedule.departure - Get(tour, 1).schedule.arrival
            ELSE 0
      [] cost_span = "FirstJobToLastJob" ->
            IF get_last_job_idx(tour, total_activities).some
            THEN Get(tour, get_last_job_idx(tour, total_activities).value).schedule.departure
                     - Get(tour, 1).schedule.arrival
            ELSE 0

\* (start_idx, end_idx) of the legs that count, None where the code returns 0 early
distance_range(tour, cost_span, total_activities, last_job_idx) ==
    CASE cost_span = "DepotToDepot" -> Some(<<0, total_activities>>)
      [] cost_span = "DepotToLastJob" ->
            IF last_job_idx.some THEN Some(<<0, last_job_idx.value + 1>>) ELSE None
      [] cost_span = "FirstJobToDepot" ->
            IF has_jobs(tour, total_activities) THEN Some(<<1, total_activities>>) ELSE None
      [] cost_span = "FirstJobToLastJob" ->
            IF last_job_idx.some THEN Some(<<1, last_job_idx.value + 1>>) ELSE None

\* all_activities().skip(start_idx + 1).take(end_idx - start_idx - 1).fold(...)
RECURSIVE distance_fold(_, _, _, _, _)
distance_fold(tour, i, taken, loc, total_dist) ==
    IF taken = 0 \/ i >= Total(tour) THEN total_dist
    ELSE distance_fold(tour, i + 1, taken - 1, Get(tour, i).place.location,
             total_dist + TransportDistance(loc, Get(tour, i).place.location))

distance_over(tour, range) ==
    IF ~range.some THEN 0
    ELSE distance_fold(tour, range.value[1] + 1, range.value[2] - range.value[1] - 1,
                       Get(tour, range.value[1]).place.location, 0)

calculate_route_distance(tour, cost_span, total_activities) ==
    distance_over(tour,
        distance_range(tour, cost_span, total_activities,
                       get_last_job_idx(tour, total_activities)))

update_statistics(rc) ==
    [rc EXCEPT
        !.total_distance = calculate_route_distance(rc.tour, actor.cost_span, Total(rc.tour)),
        !.total_duration = calculate_route_duration(rc.tour, actor.cost_span, Total(rc.tour),
                                                    TourStart(rc.tour), TourEnd(rc.tour))]

(***************************************************************************)
(* schedule_update.rs: update_route_schedule, update_route_departure       *)
(***************************************************************************)
\* for _ in 0..MAX_ITERATIONS { ... if (new_anchor - anchor).abs() <= EPSILON { break } }
RECURSIVE fixed_point_loop(_, _)
fixed_point_step(anchor, updated, remaining) ==
    IF Abs(get_offset_anchor(updated) - anchor) <= EPSILON THEN updated
    ELSE fixed_point_loop(updated, remaining - 1)

fixed_point_loop(tour, remaining) ==
    IF remaining = 0 THEN tour
    ELSE fixed_point_step(get_offset_anchor(tour), update_schedules(tour), remaining)

with_tour(rc, tour) == [rc EXCEPT !.tour = tour]

\* Variant of schedule_tour with the single forward pass only: what C6 must tell
\* apart from the code.
schedule_tour_in_one_pass(tour) == update_schedules(tour)

schedule_tour(tour) ==
    IF IsFirstJobSpan(actor.cost_span)
    THEN fixed_point_loop(update_schedules(tour), MAX_ITERATIONS)
    ELSE update_schedules(tour)

update_route_schedule(rc) ==
    update_statistics(update_states(with_tour(rc, schedule_tour(rc.tour))))

\* The activity's place definition and the span of it that the code takes for the
\* origin of place.time: the first offset span that, materialised at old_anchor,
\* equals place.time.
place_def(a) == a.job.places[a.place.idx + 1]
has_place_def(a) == HasJob(a) /\ a.place.idx < Len(a.job.places)

first_span_of(times, found) ==
    IF found = {} THEN None
    ELSE Some(times[CHOOSE k \in found : \A j \in found : k <= j])

matching_offset_span(a, old_anchor) ==
    first_span_of(place_def(a).times,
        {k \in DOMAIN place_def(a).times :
            /\ place_def(a).times[k].kind = "Offset"
            /\ to_time_window(place_def(a).times[k], old_anchor) = a.place.time})

rebind_to(a, span, new_anchor) ==
    IF ~span.some THEN a
    ELSE [a EXCEPT !.place.time = to_time_window(span.value, new_anchor)]

recompute_activity_time_window(a, old_anchor, new_anchor) ==
    IF ~has_place_def(a) THEN a
    ELSE rebind_to(a, matching_offset_span(a, old_anchor), new_anchor)

recompute_offset_time_windows(tour, old_anchor, new_anchor) ==
    IF old_anchor = new_anchor THEN tour
    ELSE [i \in DOMAIN tour |-> recompute_activity_time_window(tour[i], old_anchor, new_anchor)]

set_departure(tour, new_departure_time) ==
    [tour EXCEPT ![1].schedule.departure = new_departure_time]

rebind_departed(departed, old_anchor) ==
    recompute_offset_time_windows(departed, old_anchor, get_offset_anchor(departed))

update_route_departure(rc, new_departure_time) ==
    update_route_schedule(with_tour(rc,
        rebind_departed(set_departure(rc.tour, new_departure_time),
                        get_offset_anchor(rc.tour))))

(***************************************************************************)
(* departure_time.rs                                                       *)
(***************************************************************************)
\* rev().fold((0., Float::MAX), ...) over all activities, the start included
waiting_time_at(activity) == Max(activity.place.time.start - activity.schedule.arrival, 0)
remaining_time_at(activity) ==
    Max(activity.place.time.end - activity.schedule.arrival - waiting_time_at(activity), 0)

RECURSIVE whole_tour_fold(_, _, _, _)
whole_tour_fold(tour, i, total_waiting_time, max_shift) ==
    IF i < 0 THEN <<total_waiting_time, max_shift>>
    ELSE whole_tour_fold(tour, i - 1,
             total_waiting_time + waiting_time_at(Get(tour, i)),
             waiting_time_at(Get(tour, i)) + Min(remaining_time_at(Get(tour, i)), max_shift))

whole_tour_departure(start, folded, latest_allowed_departure) ==
    Min(start.schedule.departure + Min(folded[1], folded[2]), latest_allowed_departure)

\* Variant of first_leg_departure that leaves out the actor's latest departure: what
\* C30 must tell apart from the code.
first_leg_departure_past_latest(first, last_departure_time, start_to_first, latest) ==
    Max(last_departure_time, first.place.time.start - start_to_first)

first_leg_departure(first, last_departure_time, start_to_first, latest_allowed_departure) ==
    Min(Max(last_departure_time, first.place.time.start - start_to_first),
        latest_allowed_departure)

new_departure_or_none(new_departure_time, last_departure_time) ==
    IF new_departure_time > last_departure_time THEN Some(new_departure_time) ELSE None

try_advance_departure_time(rc, optimize_whole_tour) ==
    IF Total(rc.tour) < 2 THEN None
    ELSE new_departure_or_none(
            IF optimize_whole_tour
            THEN whole_tour_departure(TourStart(rc.tour),
                     whole_tour_fold(rc.tour, Total(rc.tour) - 1, 0, FloatMax),
                     actor.start_latest)
            ELSE first_leg_departure(Get(rc.tour, 1),
                     TourStart(rc.tour).schedule.departure,
                     TransportDurationDeparture(rc.tour,
                         TourStart(rc.tour).place.location,
                         Get(rc.tour, 1).place.location,
                         TourStart(rc.tour).schedule.departure),
                     actor.start_latest),
            TourStart(rc.tour).schedule.departure)

\* max_change: the slack at activity 1, the room down to the earliest departure
\* and, with a duration limit, the room up to it
\* Variant of recede_max_change that does not read the duration limit: what C26
\* must tell apart from the code.
recede_max_change_without_limit(rc) ==
    Min(TourStart(rc.tour).schedule.departure - actor.start_earliest,
        rc.latest_arrival[2] - Get(rc.tour, 1).schedule.arrival)

recede_max_change(rc) ==
    IF rc.limit_duration = FloatMax
    THEN Min(TourStart(rc.tour).schedule.departure - actor.start_earliest,
             rc.latest_arrival[2] - Get(rc.tour, 1).schedule.arrival)
    ELSE Min(rc.limit_duration - rc.total_duration,
             Min(TourStart(rc.tour).schedule.departure - actor.start_earliest,
                 rc.latest_arrival[2] - Get(rc.tour, 1).schedule.arrival))

\* Variant of try_recede_departure_time that adds max_change: what C3 must tell
\* apart from the code.
try_recede_departure_time_later(rc) ==
    IF Total(rc.tour) < 2 \/ Len(rc.latest_arrival) < 2 THEN None
    ELSE IF recede_max_change(rc) > 0
         THEN Some(TourStart(rc.tour).schedule.departure + recede_max_change(rc))
         ELSE None

try_recede_departure_time(rc) ==
    IF Total(rc.tour) < 2 \/ Len(rc.latest_arrival) < 2 THEN None
    ELSE IF recede_max_change(rc) > 0
         THEN Some(TourStart(rc.tour).schedule.departure - recede_max_change(rc))
         ELSE None

\* push_candidate: d - epsilon, d, d + epsilon, each kept when strictly inside
push_candidate(d, current, upper, epsilon) ==
    {val \in {d - epsilon, d, d + epsilon} : val > current /\ val < upper}

\* place.times.iter().find(|t| matches!(t, TimeSpan::Offset(_)))
first_offset_span(times) ==
    first_span_of(times, {k \in DOMAIN times : times[k].kind = "Offset"})

offset_triple(span, duration) == <<span.start, span.end, duration>>

\* (offset.start, offset.end, place.duration) of the first offset span of the place
\* of every job activity that has one
break_offsets(tour) ==
    {offset_triple(first_offset_span(place_def(tour[i]).times).value,
                   place_def(tour[i]).duration) :
        i \in {i \in DOMAIN tour :
                  has_place_def(tour[i])
                  /\ first_offset_span(place_def(tour[i]).times).some}}

\* start and end of place.time of every job activity whose place has a fixed window
job_tw_boundaries(tour) ==
    UNION {{tour[i].place.time.start, tour[i].place.time.end} :
        i \in {i \in DOMAIN tour :
                  /\ has_place_def(tour[i])
                  /\ \E k \in DOMAIN place_def(tour[i]).times :
                         place_def(tour[i]).times[k].kind = "Window"}}

critical_departures_of(offsets, boundaries, current, upper) ==
    UNION {
        push_candidate(tw_boundary - bo[2] - bo[3], current, upper, EPSILON)
        \cup push_candidate(tw_boundary - bo[2], current, upper, EPSILON)
        \cup push_candidate(tw_boundary - bo[1], current, upper, EPSILON) :
        <<bo, tw_boundary>> \in offsets \X boundaries}

\* The sorted, deduplicated candidate vector, as the set of its elements
compute_critical_departures(tour, current, upper) ==
    critical_departures_of(break_offsets(tour), job_tw_boundaries(tour), current, upper)

SetMax(S) == CHOOSE x \in S : \A y \in S : y <= x

\* One update_route_departure call of the optimizer: the departure it set, the
\* route context it left and what the probe said of it afterwards.
call_record(departure, updated) ==
    [departure |-> departure, rc |-> updated,
     feasible |-> is_schedule_feasible(updated.tour)]

departure_call(rc, departure) ==
    call_record(departure, update_route_departure(rc, departure))

\* for &candidate in candidates.iter().rev() { ... }; at the end the fallback.
\* The result is the sequence of the update_route_departure calls made.
RECURSIVE try_candidates(_, _, _, _)
after_candidate(tried, rest, current, upper) ==
    IF tried.feasible THEN <<tried>>
    ELSE <<tried>> \o try_candidates(tried.rc, rest, current, upper)

try_candidate(rc, candidate, rest, current, upper) ==
    IF candidate <= current \/ candidate >= upper
    THEN try_candidates(rc, rest, current, upper)
    ELSE after_candidate(departure_call(rc, candidate), rest, current, upper)

\* Variant of try_candidates that tries the candidates from lowest to highest:
\* what C24 must tell apart from the code.
try_candidates_ascending(rc, candidates, current, upper) ==
    IF candidates = {} THEN <<departure_call(rc, current)>>
    ELSE try_candidate(rc, CHOOSE c \in candidates : \A d \in candidates : c <= d,
                       candidates \ {CHOOSE c \in candidates : \A d \in candidates : c <= d},
                       current, upper)

try_candidates(rc, candidates, current, upper) ==
    IF candidates = {} THEN <<departure_call(rc, current)>>
    ELSE try_candidate(rc, SetMax(candidates), candidates \ {SetMax(candidates)},
                       current, upper)

after_fast_path(fast, current, upper) ==
    IF fast.feasible THEN <<fast>>
    ELSE <<fast>> \o try_candidates(fast.rc,
                        compute_critical_departures(fast.rc.tour, current, upper),
                        current, upper)

advance_to(rc, upper) ==
    IF ~upper.some THEN <<>>
    ELSE after_fast_path(departure_call(rc, upper.value),
                         TourStart(rc.tour).schedule.departure, upper.value)

\* advance_departure_time as the sequence of its update_route_departure calls
advance_calls(rc, consider_whole_tour) ==
    advance_to(rc, try_advance_departure_time(rc, consider_whole_tour))

after_recede_try(tried, current) ==
    IF tried.feasible THEN <<tried>>
    ELSE <<tried, departure_call(tried.rc, current)>>

recede_to(rc, new_departure_time) ==
    IF ~new_departure_time.some THEN <<>>
    ELSE after_recede_try(departure_call(rc, new_departure_time.value),
                          TourStart(rc.tour).schedule.departure)

\* recede_departure_time as the sequence of its update_route_departure calls
recede_calls(rc) == recede_to(rc, try_recede_departure_time(rc))

\* The route context a call sequence leaves: that of its last call
after_calls(rc, calls) == IF calls = <<>> THEN rc ELSE calls[Len(calls)].rc

advance_departure_time(rc, consider_whole_tour) ==
    after_calls(rc, advance_calls(rc, consider_whole_tour))

recede_departure_time(rc) == after_calls(rc, recede_calls(rc))

(***************************************************************************)
(* The actors, the jobs and the routes of the model                        *)
(***************************************************************************)
CostSpans == {"DepotToDepot", "DepotToLastJob", "FirstJobToDepot", "FirstJobToLastJob"}

\* actor.detail.time.end of a closed shift
ShiftEnd == 12 * U

\* The reserved times of an actor: none, one at a fixed time, one at an offset
ReservedTimes ==
    {<<>>,
     <<[time |-> Window(U, U), duration |-> U]>>,
     <<[time |-> Offset(U, U), duration |-> U]>>}

Actors ==
    {[cost_span |-> cs, has_end |-> closed,
      start_location |-> 0, end_location |-> 0,
      start_earliest |-> 0, start_latest |-> latest,
      time_end |-> IF closed THEN ShiftEnd ELSE FloatMax,
      reserved |-> rt] :
        cs \in CostSpans, closed \in BOOLEAN, latest \in {3 * U, FloatMax},
        rt \in ReservedTimes}

\* The single-place jobs of the problem: one span each, or two
JobLocations == {U, 2 * U}
JobSpans == {Window(0, 4 * U), Window(5 * U, 5 * U), Offset(2 * U, 4 * U)}
\* A place with a fixed window and an offset span that, materialised at anchor U,
\* is that same window
TwoSpanTimes == {<<Window(2 * U, 4 * U), Offset(U, 3 * U)>>}
JobPlaces ==
    {[location |-> l, duration |-> U, times |-> ts] :
        l \in JobLocations, ts \in {<<sp>> : sp \in JobSpans} \cup TwoSpanTimes}

start_activity ==
    [place |-> [idx |-> 0, location |-> actor.start_location, duration |-> 0,
                time |-> TimeWindow(actor.start_earliest, actor.start_latest)],
     schedule |-> Schedule(actor.start_earliest, actor.start_earliest),
     job |-> NoJob, chosen |-> 0]

end_activity ==
    [place |-> [idx |-> 0, location |-> actor.end_location, duration |-> 0,
                time |-> TimeWindow(0, actor.time_end)],
     schedule |-> Schedule(0, 0),
     job |-> NoJob, chosen |-> 0]

\* RouteContext::new: the tour of the actor without jobs and an empty state
new_route_ctx ==
    [tour |-> IF actor.has_end THEN <<start_activity, end_activity>> ELSE <<start_activity>>,
     latest_arrival |-> <<>>, waiting_time |-> <<>>,
     total_distance |-> 0, total_duration |-> 0, limit_duration |-> FloatMax]

\* A new activity for place definition pd with its k-th span chosen, the window
\* materialised at the anchor of the route it is inserted into. "chosen" records
\* the span the window came from; the program keeps no such field.
job_activity(pd, k, anchor) ==
    [place |-> [idx |-> 0, location |-> pd.location, duration |-> pd.duration,
                time |-> to_time_window(pd.times[k], anchor)],
     schedule |-> Schedule(0, 0),
     job |-> [places |-> <<pd>>], chosen |-> k]

insert_activity(tour, a, index) ==
    SubSeq(tour, 1, index) \o <<a>> \o SubSeq(tour, index + 1, Len(tour))

JobCount(tour) == Cardinality({i \in DOMAIN tour : HasJob(tour[i])})

Op(name, whole, calls) == [name |-> name, whole |-> whole, calls |-> calls]

\* SolutionContext with no route and no solution state: what the scheduler, which
\* works on one route, leaves untouched
EmptySolution ==
    [routes |-> <<>>,
     state |-> [nearest_distance_penalty |-> None, vehicle_distance_penalty |-> None]]

(***************************************************************************)
(* The state machine                                                       *)
(***************************************************************************)
Init ==
    /\ actor \in Actors
    /\ route_ctx = new_route_ctx
    /\ op = Op("new", FALSE, <<>>)
    /\ before = route_ctx
    /\ solution_ctx = EmptySolution

\* The insertion driver: a job activity enters the tour at a position the
\* constraints admit, and the route schedule is updated.
inserted_ctx(rc, a, index) == with_tour(rc, insert_activity(rc.tour, a, index))

Commit(updated, was, operation) ==
    /\ route_ctx' = updated
    /\ before' = was
    /\ op' = operation
    /\ UNCHANGED <<actor, solution_ctx>>

InsertInto(inserted, updated) ==
    /\ is_schedule_feasible(updated.tour)
    /\ Commit(updated, inserted, Op("insert", FALSE, <<>>))

InsertJob ==
    /\ JobCount(route_ctx.tour) < MaxJobs
    /\ \E pd \in JobPlaces, index \in 1..(JobCount(route_ctx.tour) + 1) :
          \E k \in DOMAIN pd.times :
              \E inserted \in {inserted_ctx(route_ctx,
                                   job_activity(pd, k, get_offset_anchor(route_ctx.tour)),
                                   index)} :
                  InsertInto(inserted, update_route_schedule(inserted))

UpdateRouteSchedule ==
    Commit(update_route_schedule(route_ctx), route_ctx, Op("update", FALSE, <<>>))

Called(calls, name, whole) ==
    Commit(after_calls(route_ctx, calls), route_ctx, Op(name, whole, calls))

AdvanceDepartureTime ==
    /\ TourStart(route_ctx.tour).schedule.departure < MaxDeparture * U
    /\ \E consider_whole_tour \in BOOLEAN :
          Called(advance_calls(route_ctx, consider_whole_tour),
                 "advance", consider_whole_tour)

RecedeDepartureTime ==
    Called(recede_calls(route_ctx), "recede", FALSE)

Next ==
    \/ InsertJob
    \/ UpdateRouteSchedule
    \/ AdvanceDepartureTime
    \/ RecedeDepartureTime

Spec == Init /\ [][Next]_vars

(***************************************************************************)
(* Properties                                                              *)
(***************************************************************************)
\* The route contexts that update_route_schedule returned during the operation
\* that produced this state: one per update_route_departure call, or the state's
\* own after an insertion or a plain update.
UpdatedContexts ==
    IF op.name \in {"insert", "update"} THEN {route_ctx}
    ELSE {op.calls[n].rc : n \in DOMAIN op.calls}

StartDeparture(rc) == TourStart(rc.tour).schedule.departure

ArrivalFollowsDeparture(tour, i) ==
    Get(tour, i).schedule.arrival =
        Get(tour, i - 1).schedule.departure
        + TransportDurationDeparture(tour, Get(tour, i - 1).place.location,
              Get(tour, i).place.location, Get(tour, i - 1).schedule.departure)

\* C1: after update_route_schedule returns, every activity i >= 1 arrives at the
\* departure of activity i-1 plus the transport duration of the leg between them,
\* for all four cost spans.
C1_ArrivalIsDeparturePlusTravel ==
    \A rc \in UpdatedContexts :
        \A i \in 1..(Total(rc.tour) - 1) : ArrivalFollowsDeparture(rc.tour, i)

\* A route anchored on the first job whose anchor the update moved, with a leg
\* that a reserved time lengthened
C1_AnchoredOnFirstJobWithLongerLeg ==
    /\ op.name = "insert"
    /\ IsFirstJobSpan(actor.cost_span)
    /\ get_offset_anchor(before.tour) # get_offset_anchor(route_ctx.tour)
    /\ \E i \in 1..(Total(route_ctx.tour) - 1) :
          Get(route_ctx.tour, i).schedule.arrival >
              Get(route_ctx.tour, i - 1).schedule.departure
              + TransportDistance(Get(route_ctx.tour, i - 1).place.location,
                                  Get(route_ctx.tour, i).place.location)

ServiceStart(a) == Max(a.schedule.arrival, a.place.time.start)

ServiceInWindow(a) ==
    /\ a.place.time.start <= ServiceStart(a)
    /\ ServiceStart(a) <= a.place.time.end
    /\ a.schedule.departure >= ServiceStart(a) + a.place.duration

JobsServedInWindow(tour) ==
    \A i \in DOMAIN tour : HasJob(tour[i]) => ServiceInWindow(tour[i])

C3_AdvanceUpRecedeDown ==
    /\ op.name = "advance" => StartDeparture(route_ctx) >= StartDeparture(before)
    /\ op.name = "recede" => StartDeparture(route_ctx) <= StartDeparture(before)

\* advance committed a critical candidate after the probe rejected the target
C3_CandidateCommitted ==
    /\ op.name = "advance"
    /\ Len(op.calls) >= 2
    /\ ~op.calls[1].feasible
    /\ op.calls[Len(op.calls)].feasible
    /\ StartDeparture(route_ctx) > StartDeparture(before)

\* No departure the optimizer tried, other than the one it had, passed the probe
NoTriedDeparturePassed ==
    /\ op.calls # <<>>
    /\ \A n \in DOMAIN op.calls :
          op.calls[n].departure # StartDeparture(before) => ~op.calls[n].feasible

\* C4: advance_departure_time and recede_departure_time preserve feasibility; when
\* no tried departure passes the probe the start departure is the one before the call.
C4_FeasibilityPreserved ==
    op.name \in {"advance", "recede"} =>
        /\ is_schedule_feasible(before.tour) => is_schedule_feasible(route_ctx.tour)
        /\ NoTriedDeparturePassed => StartDeparture(route_ctx) = StartDeparture(before)

Schedules(tour) == [i \in DOMAIN tour |-> tour[i].schedule]

\* C5: a second advance_departure_time with the same flag leaves the start departure
\* and the activity schedules as the first call left them.
C5_AdvanceIdempotent ==
    op.name = "advance" =>
        Schedules(advance_departure_time(route_ctx, op.whole).tour)
            = Schedules(route_ctx.tour)

\* C6: update_route_schedule applied to a route it has just updated changes no
\* schedule, no latest_arrival or waiting_time entry and neither total.
C6_UpdateIdempotent ==
    \A rc \in UpdatedContexts : update_route_schedule(rc) = rc

\* An update of a route anchored on the first job that one forward pass alone
\* would not have brought to its final schedule
C6_AnchorLoopIterated ==
    /\ op.name \in {"insert", "update"}
    /\ IsFirstJobSpan(actor.cost_span)
    /\ update_schedules(before.tour) # route_ctx.tour
    /\ JobCount(route_ctx.tour) = MaxJobs

\* The n-th update_route_departure call of the operation: the route it was called
\* on, the tour with the new departure set, the anchors read before and after, and
\* the tour after recompute_offset_time_windows, on which update_route_schedule runs
CallInput(n) == IF n = 1 THEN before ELSE op.calls[n - 1].rc
Departed(n) == set_departure(CallInput(n).tour, op.calls[n].departure)
OldAnchor(n) == get_offset_anchor(CallInput(n).tour)
NewAnchor(n) == get_offset_anchor(Departed(n))
Rebound(n) == recompute_offset_time_windows(Departed(n), OldAnchor(n), NewAnchor(n))

\* C7: is_schedule_feasible gives the same answer for two routes that agree on the
\* start, the order, the locations and the windows and differ in the stored
\* schedules only: the tour update_route_schedule is called on and the tour it leaves.
C7_ProbeIgnoresStoredSchedules ==
    \A n \in DOMAIN op.calls :
        is_schedule_feasible(Rebound(n)) = is_schedule_feasible(op.calls[n].rc.tour)

FromOffsetSpan(a) == HasJob(a) /\ place_def(a).times[a.chosen].kind = "Offset"

Shifted(tw, d) == TimeWindow(tw.start + d, tw.end + d)

\* C8: recompute_offset_time_windows shifts the window of every activity whose
\* window came from an offset span by new_anchor - old_anchor and leaves the window
\* of every other activity as it was.
C8_OnlyOffsetWindowsShift ==
    \A n \in DOMAIN op.calls : \A i \in DOMAIN Departed(n) :
        Rebound(n)[i].place.time =
            IF FromOffsetSpan(Departed(n)[i])
            THEN Shifted(Departed(n)[i].place.time, NewAnchor(n) - OldAnchor(n))
            ELSE Departed(n)[i].place.time

MaterialisedAtAnchor(tour) ==
    \A i \in DOMAIN tour :
        FromOffsetSpan(tour[i]) =>
            tour[i].place.time = to_time_window(place_def(tour[i]).times[tour[i].chosen],
                                                get_offset_anchor(tour))

\* C9: after update_route_departure returns, every window that came from an offset
\* span is that span materialised at the route's current anchor.
C9_OffsetWindowsFollowAnchor ==
    \A n \in DOMAIN op.calls : MaterialisedAtAnchor(op.calls[n].rc.tour)

\* The statistics table: the span runs from the depot or the first job to the depot
\* end or the last job
JobIndexes(tour) == {i \in 0..(Total(tour) - 1) : HasJob(Get(tour, i))}
SetMin(S) == CHOOSE x \in S : \A y \in S : x <= y
FromDepot(cost_span) == cost_span \in {"DepotToDepot", "DepotToLastJob"}
ToDepot(cost_span) == cost_span \in {"DepotToDepot", "FirstJobToDepot"}
SpanFirst(tour, cost_span) == IF FromDepot(cost_span) THEN 0 ELSE SetMin(JobIndexes(tour))
SpanLast(tour, cost_span) ==
    IF ToDepot(cost_span) THEN Total(tour) - 1 ELSE SetMax(JobIndexes(tour))

RECURSIVE LegsBetween(_, _, _)
LegsBetween(tour, first, last) ==
    IF last <= first THEN 0
    ELSE LegsBetween(tour, first, last - 1)
         + Abs(Get(tour, last).place.location - Get(tour, last - 1).place.location)

TableDuration(tour, cost_span) ==
    IF JobIndexes(tour) = {} /\ cost_span # "DepotToDepot" THEN 0
    ELSE Get(tour, SpanLast(tour, cost_span)).schedule.departure
         - (IF FromDepot(cost_span) THEN TourStart(tour).schedule.departure
            ELSE Get(tour, SpanFirst(tour, cost_span)).schedule.arrival)

TableDistance(tour, cost_span) ==
    IF JobIndexes(tour) = {} /\ cost_span # "DepotToDepot" THEN 0
    ELSE LegsBetween(tour, SpanFirst(tour, cost_span), SpanLast(tour, cost_span))

CodeDuration(tour, cost_span) ==
    calculate_route_duration(tour, cost_span, Total(tour), TourStart(tour), TourEnd(tour))
CodeDistance(tour, cost_span) == calculate_route_distance(tour, cost_span, Total(tour))

\* C10: the totals update_statistics stores are those of the table for the actor's
\* cost span, the code's formulas agree with the table for all four spans, on an
\* open tour DepotToDepot equals DepotToLastJob and FirstJobToDepot equals
\* FirstJobToLastJob, and a route without jobs gets 0 except under DepotToDepot.
C10_StatisticsLaw ==
    \A rc \in UpdatedContexts :
        /\ rc.total_duration = TableDuration(rc.tour, actor.cost_span)
        /\ rc.total_distance = TableDistance(rc.tour, actor.cost_span)
        /\ \A cs \in CostSpans :
              /\ CodeDuration(rc.tour, cs) = TableDuration(rc.tour, cs)
              /\ CodeDistance(rc.tour, cs) = TableDistance(rc.tour, cs)
        /\ HasJob(TourEnd(rc.tour)) =>
              /\ CodeDuration(rc.tour, "DepotToDepot") = CodeDuration(rc.tour, "DepotToLastJob")
              /\ CodeDistance(rc.tour, "DepotToDepot") = CodeDistance(rc.tour, "DepotToLastJob")
              /\ CodeDuration(rc.tour, "FirstJobToDepot")
                     = CodeDuration(rc.tour, "FirstJobToLastJob")
              /\ CodeDistance(rc.tour, "FirstJobToDepot")
                     = CodeDistance(rc.tour, "FirstJobToLastJob")
        /\ JobIndexes(rc.tour) = {} /\ actor.cost_span # "DepotToDepot" =>
              rc.total_duration = 0 /\ rc.total_distance = 0

\* A closed tour with two jobs whose four spans give four different durations
C10_FourSpansDiffer ==
    /\ op.name = "insert"
    /\ actor.has_end
    /\ JobCount(route_ctx.tour) = 2
    /\ \A cs1, cs2 \in CostSpans :
          cs1 # cs2 => CodeDuration(route_ctx.tour, cs1) # CodeDuration(route_ctx.tour, cs2)
    /\ route_ctx.total_distance > 0

(***************************************************************************)
(* job_time_limits.rs: JobTimeLimitsConstraint                             *)
(***************************************************************************)
\* JobTimeConstraints { earliest_first, latest_last }, both optional
JobTimeConstraints(earliest_first, latest_last) ==
    [earliest_first |-> earliest_first, latest_last |-> latest_last]

\* ActivityContext { index, prev, target, next }: the target is to enter the tour
\* after prev = tour.get(index); next is the activity after prev, if there is one
ActivityContext(index, prev, target, next) ==
    [index |-> index, prev |-> prev, target |-> target, next |-> next]

\* the code the feature was created with
violation_code == 1

arr_time_at_target(tour, prev, target) ==
    prev.schedule.departure
    + TransportDurationDeparture(tour, prev.place.location, target.place.location,
                                 prev.schedule.departure)

is_first_job(activity_ctx) == ~HasJob(activity_ctx.prev) /\ activity_ctx.index = 0

is_last_job(activity_ctx) ==
    activity_ctx.next = <<>> \/ ~HasJob(activity_ctx.next[1])

\* Variant of earliest_first_skips that also skips a target whose window ends at
\* earliest_first: what C13 must tell apart from the code.
earliest_first_skips_closed_window(earliest_first, activity_ctx, arr) ==
    /\ earliest_first.some
    /\ is_first_job(activity_ctx)
    /\ arr < earliest_first.value
    /\ activity_ctx.target.place.time.end <= earliest_first.value

\* lines 74-86: the first job would arrive before earliest_first and cannot wait
earliest_first_skips(earliest_first, activity_ctx, arr) ==
    /\ earliest_first.some
    /\ is_first_job(activity_ctx)
    /\ arr < earliest_first.value
    /\ activity_ctx.target.place.time.end < earliest_first.value

\* Variant of actual_arr_time that never waits for earliest_first: what C14 must
\* tell apart from the code.
actual_arr_time_without_wait(earliest_first, activity_ctx, arr) == arr

actual_arr_time(earliest_first, activity_ctx, arr) ==
    IF earliest_first.some /\ is_first_job(activity_ctx)
    THEN Max(arr, earliest_first.value)
    ELSE arr

\* activity.estimate_departure(route, target, service_start), taken as a time
departure_from_target(tour, target, service_start) ==
    unwrap_value(EstimateDeparture(tour, target, service_start))

\* Variant of latest_last_skips that skips a departure at latest_last too: what
\* C11 must tell apart from the code.
latest_last_skips_from_either_side(constraints, tour, activity_ctx, arr) ==
    /\ constraints.latest_last.some
    /\ is_last_job(activity_ctx)
    /\ departure_from_target(tour, activity_ctx.target,
           Max(actual_arr_time(constraints.earliest_first, activity_ctx, arr),
               activity_ctx.target.place.time.start)) # constraints.latest_last.value

\* lines 90-113: the target becomes the last job and would be left after latest_last
latest_last_skips(constraints, tour, activity_ctx, arr) ==
    /\ constraints.latest_last.some
    /\ is_last_job(activity_ctx)
    /\ departure_from_target(tour, activity_ctx.target,
           Max(actual_arr_time(constraints.earliest_first, activity_ctx, arr),
               activity_ctx.target.place.time.start)) > constraints.latest_last.value

evaluate_rules(constraints, tour, activity_ctx, arr) ==
    IF earliest_first_skips(constraints.earliest_first, activity_ctx, arr)
    THEN Some(violation_code)
    ELSE IF latest_last_skips(constraints, tour, activity_ctx, arr)
         THEN Some(violation_code)
         ELSE None

\* evaluate_activity for an actor whose vehicle carries these constraints
evaluate_activity_with(constraints, tour, activity_ctx) ==
    IF ~constraints.earliest_first.some /\ ~constraints.latest_last.some THEN None
    ELSE IF ~HasJob(activity_ctx.target) THEN None
    ELSE evaluate_rules(constraints, tour, activity_ctx,
             arr_time_at_target(tour, activity_ctx.prev, activity_ctx.target))

\* get_job_time_constraints().copied()?: no dimension, no violation
evaluate_activity(rc, activity_ctx) ==
    IF actor.job_time_constraints = <<>> THEN None
    ELSE evaluate_activity_with(actor.job_time_constraints[1], rc.tour, activity_ctx)

(***************************************************************************)
(* The insertion driver under JobTimeLimitsConstraint                      *)
(***************************************************************************)
\* The job time constraints of the vehicles: no dimension, or one or both bounds
VehicleJobTimes ==
    {<<>>,
     <<JobTimeConstraints(Some(3 * U), None)>>,
     <<JobTimeConstraints(Some(5 * U), None)>>,
     <<JobTimeConstraints(None, Some(3 * U))>>,
     <<JobTimeConstraints(Some(2 * U), Some(4 * U))>>}

LimitedActors ==
    {[cost_span |-> cs, has_end |-> closed,
      start_location |-> 0, end_location |-> 0,
      start_earliest |-> 0, start_latest |-> FloatMax,
      time_end |-> IF closed THEN ShiftEnd ELSE FloatMax,
      reserved |-> rt, job_time_constraints |-> jt] :
        cs \in {"DepotToDepot", "FirstJobToLastJob"}, closed \in BOOLEAN,
        rt \in ReservedTimes, jt \in VehicleJobTimes}

\* The activity context of the insertion of a at leg index of the tour
activity_ctx_at(tour, a, index) ==
    ActivityContext(index, Get(tour, index), a,
        IF index + 1 < Total(tour) THEN <<Get(tour, index + 1)>> ELSE <<>>)

\* The candidate insertions of a route: every span of every place at every leg
Moves(rc) ==
    {activity_ctx_at(rc.tour, job_activity(pd, k, get_offset_anchor(rc.tour)), index) :
        <<pd, k, index>> \in
            {m \in JobPlaces \X (1..2) \X (0..JobCount(rc.tour)) :
                m[2] \in DOMAIN m[1].times}}

Evaluated(name, activity_ctx, violation) ==
    [name |-> name, whole |-> FALSE, calls |-> <<>>,
     activity_ctx |-> activity_ctx, violation |-> violation]

InitLimited ==
    /\ actor \in LimitedActors
    /\ route_ctx = new_route_ctx
    /\ op = Op("new", FALSE, <<>>)
    /\ before = route_ctx
    /\ solution_ctx = EmptySolution

Insertable(activity_ctx, updated) ==
    /\ is_schedule_feasible(updated.tour)
    /\ Commit(updated, route_ctx, Evaluated("insert", activity_ctx, None))

\* evaluate() allows the move: the target enters the tour after prev and the route
\* schedule is updated
AllowedInsertion ==
    /\ JobCount(route_ctx.tour) < MaxJobs
    /\ \E activity_ctx \in Moves(route_ctx) :
          /\ ~evaluate_activity(route_ctx, activity_ctx).some
          /\ Insertable(activity_ctx,
                 update_route_schedule(
                     inserted_ctx(route_ctx, activity_ctx.target, activity_ctx.index + 1)))

\* evaluate() skips the move: the route stays as it is
SkippedInsertion ==
    /\ JobCount(route_ctx.tour) < MaxJobs
    /\ \E activity_ctx \in Moves(route_ctx) :
          /\ evaluate_activity(route_ctx, activity_ctx).some
          /\ Commit(route_ctx, route_ctx,
                 Evaluated("skip", activity_ctx, evaluate_activity(route_ctx, activity_ctx)))

NextLimited ==
    \/ AllowedInsertion
    \/ SkippedInsertion

SpecLimited == InitLimited /\ [][NextLimited]_vars

(***************************************************************************)
(* Properties of JobTimeLimitsConstraint                                   *)
(***************************************************************************)
\* The bounds the evaluated move is judged under, whatever the actor's own
LimitTimes ==
    {U, 2 * U - 1, 2 * U, 3 * U - 1, 3 * U, 4 * U - 1, 4 * U, 5 * U, 6 * U}
OptionalLimitTimes == {None} \cup {Some(t) : t \in LimitTimes}

\* The state follows an evaluate() call: op.activity_ctx is the move, before the route
EvaluatedMove == op.name \in {"insert", "skip"}

Allows(earliest_first, latest_last) ==
    ~evaluate_activity_with(JobTimeConstraints(earliest_first, latest_last),
                            before.tour, op.activity_ctx).some

ActorJobTimes ==
    IF actor.job_time_constraints = <<>> THEN JobTimeConstraints(None, None)
    ELSE actor.job_time_constraints[1]

\* C11: for a fixed route, prev, target, next and earliest_first, a move that
\* evaluate allows with latest_last = L is allowed with every L' > L.
C11_MonotoneInLatestLast ==
    EvaluatedMove =>
        \A e \in OptionalLimitTimes : \A l1, l2 \in LimitTimes :
            l1 < l2 /\ Allows(e, Some(l1)) => Allows(e, Some(l2))

\* A last job that entered under the actor's latest_last and that a lower bound
\* would have kept out
C11_AllowedUnderBoundThatBinds ==
    /\ op.name = "insert"
    /\ ActorJobTimes.latest_last.some
    /\ is_last_job(op.activity_ctx)
    /\ \E l \in LimitTimes :
          /\ l < ActorJobTimes.latest_last.value
          /\ ~Allows(ActorJobTimes.earliest_first, Some(l))
    /\ \E l \in LimitTimes : l > ActorJobTimes.latest_last.value

\* C12: for a fixed route, prev, target, next and latest_last, a move that evaluate
\* allows with earliest_first = E is allowed with every E' < E.
C12_MonotoneInEarliestFirst ==
    EvaluatedMove =>
        \A l \in OptionalLimitTimes : \A e1, e2 \in LimitTimes :
            e2 < e1 /\ Allows(Some(e1), l) => Allows(Some(e2), l)

MovePrev == op.activity_ctx.prev
MoveTarget == op.activity_ctx.target
MoveArrival ==
    MovePrev.schedule.departure
    + TransportDurationDeparture(before.tour, MovePrev.place.location,
          MoveTarget.place.location, MovePrev.schedule.departure)
MoveIsFirst == MovePrev.job = NoJob /\ op.activity_ctx.index = 0
MoveIsLast == op.activity_ctx.next = <<>> \/ op.activity_ctx.next[1].job = NoJob

EarliestFirstViolated(e) ==
    MoveIsFirst /\ MoveArrival < e /\ MoveTarget.place.time.end < e

\* C13: with earliest_first = E alone, evaluate skips, with the violation code,
\* exactly when the target is the first job, arrives before E and its window ends
\* before E.
C13_EarliestFirstRule ==
    EvaluatedMove =>
        \A e \in LimitTimes :
            evaluate_activity_with(JobTimeConstraints(Some(e), None),
                                   before.tour, op.activity_ctx)
                = IF EarliestFirstViolated(e) THEN Some(violation_code) ELSE None

\* A first job the actor's earliest_first kept out, on a route where the same
\* target would pass at a later position or with a window that ends at E
C13_FirstJobSkipped ==
    /\ op.name = "skip"
    /\ ActorJobTimes.earliest_first.some
    /\ ~ActorJobTimes.latest_last.some
    /\ EarliestFirstViolated(ActorJobTimes.earliest_first.value)
    /\ \E e \in LimitTimes : MoveArrival < e /\ MoveTarget.place.time.end = e

MoveDeparture(e) ==
    unwrap_value(EstimateDeparture(before.tour, MoveTarget,
        Max(IF e.some /\ MoveIsFirst THEN Max(MoveArrival, e.value) ELSE MoveArrival,
            MoveTarget.place.time.start)))

\* C14: where the earliest_first rule does not skip, evaluate with latest_last = L
\* skips exactly when the target becomes the last job and estimate_departure at
\* service_start = max(actual_arr, window start) is later than L, actual_arr being
\* max(arr, E) for a first job under earliest_first = E and arr otherwise.
C14_LatestLastRule ==
    EvaluatedMove =>
        \A e \in OptionalLimitTimes : \A l \in LimitTimes :
            ~(e.some /\ EarliestFirstViolated(e.value)) =>
                evaluate_activity_with(JobTimeConstraints(e, Some(l)),
                                       before.tour, op.activity_ctx)
                    = IF MoveIsLast /\ MoveDeparture(e) > l
                      THEN Some(violation_code) ELSE None

\* A target that is first and last job at once, arrives before the actor's
\* earliest_first and is skipped for its departure after latest_last
C14_FirstAndLastSkipped ==
    /\ op.name = "skip"
    /\ ActorJobTimes.earliest_first.some
    /\ ActorJobTimes.latest_last.some
    /\ MoveIsFirst /\ MoveIsLast
    /\ MoveArrival < ActorJobTimes.earliest_first.value
    /\ MoveDeparture(ActorJobTimes.earliest_first) > ActorJobTimes.latest_last.value

LastJobActivity(tour) == Get(tour, SetMax(JobIndexes(tour)))

\* C15: on a route whose actor sets latest_last = L, after every insertion that
\* evaluate allowed, followed by update_route_schedule, the departure from the last
\* job activity is at most L.
C15_LatestLastBoundsRoute ==
    op.name = "insert" /\ ActorJobTimes.latest_last.some =>
        LastJobActivity(route_ctx.tour).schedule.departure
            <= ActorJobTimes.latest_last.value

\* C16: on a route whose actor sets earliest_first = E, after the insertion of a
\* first job that evaluate allowed and the following update_route_schedule, the
\* first job activity does not arrive before E.
C16_FirstArrivalNotBeforeEarliest ==
    /\ op.name = "insert"
    /\ op.activity_ctx.index = 0
    /\ ActorJobTimes.earliest_first.some
    => Get(route_ctx.tour, 1).schedule.arrival >= ActorJobTimes.earliest_first.value

(***************************************************************************)
(* The output model of vrp-pragmatic (section 6): times are written as     *)
(* RFC 3339 strings of whole seconds; one second is TimeUnit ticks          *)
(***************************************************************************)
\* format_time: the timestamp as i64, written out; the string is modelled by the
\* number of whole seconds it spells
format_time(time) == time \div U
\* parse_time: the timestamp a string spells
parse_time(text) == text * U

\* TimeWindow::intersects, intersects_exclusive, overlapping and duration
intersects(a, b) == a.start <= b.end /\ b.start <= a.end
intersects_exclusive(a, b) == a.start < b.end /\ b.start < a.end
overlapping(a, b) ==
    IF intersects(a, b)
    THEN <<TimeWindow(Max(a.start, b.start), Min(a.end, b.end))>>
    ELSE <<>>
duration(tw) == tw.end - tw.start

ApiSchedule(arrival, departure) == [arrival |-> arrival, departure |-> departure]
Interval(start, end) == [start |-> start, end |-> end]

\* ApiActivity { job_id, activity_type, time }; time is <<>> for None
ApiActivity(job_id, activity_type, time) ==
    [job_id |-> job_id, activity_type |-> activity_type, time |-> time]

PointStop(location, time, activities) ==
    [kind |-> "Point", location |-> location, time |-> time, activities |-> activities]
TransitStop(time, activities) ==
    [kind |-> "Transit", location |-> 0, time |-> time, activities |-> activities]

\* Statistic: cost and times, in whole seconds
Statistic(cost, driving, break_time) ==
    [cost |-> cost, driving |-> driving, break_time |-> break_time]

ApiTour(stops, statistic) == [stops |-> stops, statistic |-> statistic]

\* "HH:MM:SS" intervals of a stop and of an activity, parsed
stop_time_window(stop) ==
    TimeWindow(parse_time(stop.time.arrival), parse_time(stop.time.departure))
interval_time_window(time) == TimeWindow(parse_time(time.start), parse_time(time.end))

(***************************************************************************)
(* create_tour: the tour as the solution writer hands it to the break      *)
(* writer                                                                  *)
(***************************************************************************)
JobIds == <<"job1", "job2", "job3", "job4">>

format_schedule(schedule) ==
    ApiSchedule(format_time(schedule.arrival), format_time(schedule.departure))

\* The activity of the i-th activity of the route (i >= 1): its service interval
api_activity_of(a, i) ==
    ApiActivity(IF HasJob(a) THEN JobIds[i] ELSE "arrival",
                IF HasJob(a) THEN "delivery" ELSE "arrival",
                <<Interval(format_time(ServiceStart(a)),
                           format_time(ServiceStart(a) + a.place.duration))>>)

with_last_stop(stops, stop) == [stops EXCEPT ![Len(stops)] = stop]

add_to_stop(stop, a, i) ==
    [stop EXCEPT !.time.departure = format_time(a.schedule.departure),
                 !.activities = Append(@, api_activity_of(a, i))]

\* An activity at the location of the stop before it joins that stop, any other
\* opens a Point stop of its own
RECURSIVE create_stops(_, _, _)
create_stops(tour, i, stops) ==
    IF i >= Total(tour) THEN stops
    ELSE IF Get(tour, i).place.location = stops[Len(stops)].location
         THEN create_stops(tour, i + 1,
                  with_last_stop(stops, add_to_stop(stops[Len(stops)], Get(tour, i), i)))
         ELSE create_stops(tour, i + 1,
                  Append(stops, PointStop(Get(tour, i).place.location,
                                          format_schedule(Get(tour, i).schedule),
                                          <<api_activity_of(Get(tour, i), i)>>)))

departure_stop(start) ==
    PointStop(start.place.location, format_schedule(start.schedule),
              <<ApiActivity("departure", "departure", <<>>)>>)

RECURSIVE driving_time(_, _)
driving_time(tour, i) ==
    IF i >= Total(tour) THEN 0
    ELSE format_time(Get(tour, i).schedule.arrival - Get(tour, i - 1).schedule.departure)
         + driving_time(tour, i + 1)

create_tour(tour) ==
    ApiTour(create_stops(tour, 1, <<departure_stop(TourStart(tour))>>),
            Statistic(0, driving_time(tour, 1), 0))

(***************************************************************************)
(* break_writer.rs: insert_break, align_break_to_activity_boundary         *)
(***************************************************************************)
\* BreakInsertion, and None of it
NoBreakInsertion == [kind |-> "None", leg_idx |-> 0, break_tw |-> TimeWindow(0, 0)]
TransitBreakUsed(leg_idx) ==
    [kind |-> "TransitBreakUsed", leg_idx |-> leg_idx, break_tw |-> TimeWindow(0, 0)]
TransitBreakMoved(leg_idx, break_tw) ==
    [kind |-> "TransitBreakMoved", leg_idx |-> leg_idx, break_tw |-> break_tw]

\* route.actor.vehicle.costs.per_service_time
per_service_time == 1

\* activity.time.as_ref().map_or(stop_tw.clone(), ...)
activity_tw(activity, stop_tw) ==
    IF activity.time = <<>> THEN stop_tw ELSE interval_time_window(activity.time[1])

\* .filter_map(...).next().unwrap_or(len)
first_or(found, otherwise) ==
    IF found = {} THEN otherwise ELSE CHOOSE i \in found : \A j \in found : i <= j

\* The index after the first activity, breaks aside, that meets the reserved
\* interval; the end of the list if there is none
break_idx_of(activities, stop_tw, reserved_tw) ==
    first_or({i \in DOMAIN activities :
                 /\ activities[i].activity_type # "break"
                 /\ intersects(activity_tw(activities[i], stop_tw), reserved_tw)},
             Len(activities))

overlaps_with_duration(a, b) ==
    overlapping(a, b) # <<>> /\ duration(overlapping(a, b)[1]) > 0

has_overlap_with_job(activities, break_tw) ==
    \E i \in DOMAIN activities :
        /\ activities[i].activity_type # "break"
        /\ activities[i].time # <<>>
        /\ overlaps_with_duration(interval_time_window(activities[i].time[1]), break_tw)

\* (end <= stop_tw.end).then_some(TimeWindow::new(start, end))
from_previous_at(start, break_duration, stop_tw) ==
    IF start + break_duration <= stop_tw.end
    THEN <<TimeWindow(start, start + break_duration)>>
    ELSE <<>>

from_previous(activities, break_idx, stop_tw, break_tw) ==
    IF break_idx < 1 \/ break_idx > Len(activities) THEN <<>>
    ELSE IF activities[break_idx].time = <<>> THEN <<>>
    ELSE from_previous_at(Max(parse_time(activities[break_idx].time[1].end), stop_tw.start),
                          duration(break_tw), stop_tw)

\* (start >= stop_tw.start).then_some(TimeWindow::new(start, end))
to_next_at(end, break_duration, stop_tw) ==
    IF end - break_duration >= stop_tw.start
    THEN <<TimeWindow(end - break_duration, end)>>
    ELSE <<>>

to_next(activities, break_idx, stop_tw, break_tw) ==
    IF break_idx + 1 > Len(activities) THEN <<>>
    ELSE IF activities[break_idx + 1].time = <<>> THEN <<>>
    ELSE to_next_at(Min(parse_time(activities[break_idx + 1].time[1].start), stop_tw.end),
                    duration(break_tw), stop_tw)

first_aligned(previous, next, break_tw) ==
    IF previous # <<>> THEN previous[1]
    ELSE IF next # <<>> THEN next[1]
    ELSE break_tw

align_break_to_activity_boundary(activities, break_idx, stop_tw, break_tw) ==
    IF ~has_overlap_with_job(activities, break_tw) THEN break_tw
    ELSE first_aligned(from_previous(activities, break_idx, stop_tw, break_tw),
                       to_next(activities, break_idx, stop_tw, break_tw),
                       break_tw)

is_moved_here(break_insertion, stop_idx) ==
    break_insertion.kind = "TransitBreakMoved" /\ break_insertion.leg_idx = stop_idx

\* lines 128-141: the interval of the break activity
break_activity_time(stop, stop_tw, stop_idx, break_idx, break_insertion, reserved_tw) ==
    IF stop.kind = "Point"
    THEN align_break_to_activity_boundary(stop.activities, break_idx, stop_tw,
             IF is_moved_here(break_insertion, stop_idx)
             THEN break_insertion.break_tw ELSE reserved_tw)
    ELSE IF is_moved_here(break_insertion, stop_idx)
         THEN break_insertion.break_tw ELSE reserved_tw

\* lines 130-131 and 142-151: what the break does to the statistic
break_statistic(statistic, stop, stop_idx, break_time, break_cost, break_insertion) ==
    Statistic(
        statistic.cost
            - (IF is_moved_here(break_insertion, stop_idx) THEN break_cost ELSE 0)
            + (IF stop.kind = "Point" THEN break_cost ELSE 0),
        statistic.driving
            - (IF is_moved_here(break_insertion, stop_idx) THEN break_time ELSE 0)
            - (IF stop.kind = "Transit" THEN break_time ELSE 0),
        statistic.break_time)

break_activity(activity_time) ==
    ApiActivity("break", "break",
        <<Interval(format_time(activity_time.start), format_time(activity_time.end))>>)

\* lines 165-176: an activity that the break overlaps ends later by the overlap
stretched_end(time_window, overlap, activity_time) ==
    format_time(time_window.end + (activity_time.end - overlap.end + duration(overlap)))

stretched(activity, activity_time) ==
    IF activity.time = <<>> THEN activity
    ELSE IF ~overlaps_with_duration(interval_time_window(activity.time[1]), activity_time)
         THEN activity
         ELSE [activity EXCEPT !.time[1].end =
                  stretched_end(interval_time_window(activity.time[1]),
                      overlapping(interval_time_window(activity.time[1]), activity_time)[1],
                      activity_time)]

stretch_others(activities, break_idx, activity_time) ==
    [i \in DOMAIN activities |->
        IF i = break_idx + 1 THEN activities[i] ELSE stretched(activities[i], activity_time)]

\* lines 178-183: the stable sort by the start of the interval, None first
sort_key(activity) ==
    IF activity.time = <<>> THEN -1 ELSE parse_time(activity.time[1].start)

RECURSIVE sorted_insert(_, _)
sorted_insert(sorted, activity) ==
    IF sorted = <<>> THEN <<activity>>
    ELSE IF sort_key(sorted[Len(sorted)]) <= sort_key(activity)
         THEN Append(sorted, activity)
         ELSE Append(sorted_insert(SubSeq(sorted, 1, Len(sorted) - 1), activity),
                     sorted[Len(sorted)])

RECURSIVE sort_by_start(_, _)
sort_by_start(activities, sorted) ==
    IF activities = <<>> THEN sorted
    ELSE sort_by_start(Tail(activities), sorted_insert(sorted, Head(activities)))

\* lines 153-183: the activities of the stop with the break among them
with_break(activities, break_idx, activity_time) ==
    sort_by_start(
        stretch_others(insert_activity(activities, break_activity(activity_time), break_idx),
                       break_idx, activity_time),
        <<>>)

insert_break_at(stop, stop_tw, stop_idx, break_idx, break_insertion, reserved_tw) ==
    [stop EXCEPT !.activities =
        with_break(stop.activities, break_idx,
            break_activity_time(stop, stop_tw, stop_idx, break_idx, break_insertion,
                                reserved_tw))]

\* insert_break: the stop with the break
insert_break(stop, stop_tw, stop_idx, break_insertion, reserved_tw) ==
    insert_break_at(stop, stop_tw, stop_idx,
        break_idx_of(stop.activities, stop_tw, reserved_tw), break_insertion, reserved_tw)

(***************************************************************************)
(* break_writer.rs: insert_reserved_times_as_breaks                        *)
(***************************************************************************)
\* lines 14-19; route.tour.end() is the last activity of the route
shift_time(route_tour) ==
    TimeWindow(TourStart(route_tour).schedule.departure,
               TourEnd(route_tour).schedule.arrival)

\* lines 27-28: the reserved time resolved at the anchor, and the interval that
\* starts at its end and lasts its duration
reserved_tw_of(reserved_time, offset_anchor) ==
    TimeWindow(to_time_window(reserved_time.time, offset_anchor).end,
               to_time_window(reserved_time.time, offset_anchor).end
                   + reserved_time.duration)

travel_tw(stops, leg_idx) ==
    TimeWindow(parse_time(stops[leg_idx + 1].time.departure),
               parse_time(stops[leg_idx + 2].time.arrival))

\* lines 39-44
break_info_on(leg_idx, travel, reserved_tw) ==
    IF reserved_tw.start < travel.start
    THEN TransitBreakMoved(leg_idx,
             TimeWindow(travel.start - duration(reserved_tw), travel.start))
    ELSE TransitBreakUsed(leg_idx)

break_info_of(stops, legs, reserved_tw) ==
    IF legs = {} THEN NoBreakInsertion
    ELSE break_info_on(first_or(legs, 0), travel_tw(stops, first_or(legs, 0)), reserved_tw)

\* lines 32-49: the first leg whose travel strictly intersects the reserved interval
break_info(stops, reserved_tw) ==
    break_info_of(stops,
        {leg_idx \in 0..(Len(stops) - 2) :
            intersects_exclusive(travel_tw(stops, leg_idx), reserved_tw)},
        reserved_tw)

\* lines 51-63
with_transit_stop(stops, info, reserved_tw) ==
    IF info.kind = "TransitBreakUsed"
    THEN insert_activity(stops,
             TransitStop(ApiSchedule(format_time(reserved_tw.start),
                                     format_time(reserved_tw.end)), <<>>),
             info.leg_idx + 1)
    ELSE stops

\* reserved_time.duration as i64
break_time_of(reserved_time) == reserved_time.duration \div U

takes_break(stops, stop_idx, info, reserved_tw) ==
    IF info.kind = "TransitBreakMoved" THEN stop_idx = info.leg_idx
    ELSE intersects_exclusive(stop_time_window(stops[stop_idx + 1]), reserved_tw)

\* lines 68-95: the stop at leg_idx for a moved break, every stop that strictly
\* intersects the reserved interval otherwise
stops_with_break(stops, info, reserved_tw) ==
    [i \in DOMAIN stops |->
        IF takes_break(stops, i - 1, info, reserved_tw)
        THEN insert_break(stops[i], stop_time_window(stops[i]), i - 1, info, reserved_tw)
        ELSE stops[i]]

RECURSIVE statistic_with_break(_, _, _, _, _, _)
statistic_with_break(statistic, stops, stop_idx, info, reserved_tw, break_time) ==
    IF stop_idx >= Len(stops) THEN statistic
    ELSE statistic_with_break(
             IF takes_break(stops, stop_idx, info, reserved_tw)
             THEN break_statistic(statistic, stops[stop_idx + 1], stop_idx, break_time,
                                  break_time * per_service_time, info)
             ELSE statistic,
             stops, stop_idx + 1, info, reserved_tw, break_time)

\* line 97
add_break_time(statistic, break_time) ==
    [statistic EXCEPT !.break_time = @ + break_time]

placed(tour, stops, info, reserved_tw, break_time) ==
    ApiTour(stops_with_break(stops, info, reserved_tw),
            add_break_time(
                statistic_with_break(tour.statistic, stops, 0, info, reserved_tw, break_time),
                break_time))

place_with(tour, info, reserved_tw, break_time) ==
    placed(tour, with_transit_stop(tour.stops, info, reserved_tw), info, reserved_tw,
           break_time)

\* The body of for_each for one reserved time
place_reserved_time(tour, reserved_tw, break_time) ==
    place_with(tour, break_info(tour.stops, reserved_tw), reserved_tw, break_time)

\* .filter(|(reserved_tw, _)| shift_time.intersects(reserved_tw)).for_each(...)
RECURSIVE place_reserved_times(_, _, _, _, _)
place_reserved_times(tour, reserved, n, shift, offset_anchor) ==
    IF n > Len(reserved) THEN tour
    ELSE place_reserved_times(
             IF intersects(shift, reserved_tw_of(reserved[n], offset_anchor))
             THEN place_reserved_time(tour, reserved_tw_of(reserved[n], offset_anchor),
                                      break_time_of(reserved[n]))
             ELSE tour,
             reserved, n + 1, shift, offset_anchor)

\* insert_reserved_times_as_breaks(route, tour, reserved_times_index): the tour
\* it leaves
insert_reserved_times_as_breaks(route_tour, tour) ==
    place_reserved_times(tour, actor.reserved, 1, shift_time(route_tour),
                         get_offset_anchor(route_tour))

(***************************************************************************)
(* The solution writer over the routes of the scheduler                    *)
(***************************************************************************)
\* Actors with one required break: early at a fixed time, early or late at an offset
RequiredBreaks ==
    (ReservedTimes \ {<<>>}) \cup {<<[time |-> Offset(3 * U, 3 * U), duration |-> U]>>}

BreakActors ==
    {[cost_span |-> cs, has_end |-> closed,
      start_location |-> 0, end_location |-> 0,
      start_earliest |-> 0, start_latest |-> 3 * U,
      time_end |-> IF closed THEN ShiftEnd ELSE FloatMax,
      reserved |-> rt] :
        cs \in CostSpans, closed \in BOOLEAN, rt \in RequiredBreaks}

Written(created, emitted) ==
    [name |-> "write", whole |-> FALSE, calls |-> <<>>,
     created |-> created, emitted |-> emitted]

InitBreaks ==
    /\ actor \in BreakActors
    /\ route_ctx = new_route_ctx
    /\ op = Op("new", FALSE, <<>>)
    /\ before = route_ctx
    /\ solution_ctx = EmptySolution

Emitted(created) ==
    Commit(route_ctx, route_ctx,
           Written(created, insert_reserved_times_as_breaks(route_ctx.tour, created)))

\* create_tour on a route with jobs: the stops of the route, then the breaks
WriteTour ==
    /\ JobCount(route_ctx.tour) >= 1
    /\ op.name # "write"
    /\ Emitted(create_tour(route_ctx.tour))

NextBreaks ==
    \/ InsertJob
    \/ AdvanceDepartureTime
    \/ WriteTour

SpecBreaks == InitBreaks /\ [][NextBreaks]_vars

(***************************************************************************)
(* checker/breaks.rs: the count check of check_break_assignment            *)
(***************************************************************************)
\* VehicleBreak::Required { time: OffsetTime | ExactTime { earliest, latest }, duration }
\* of the shift, as the problem states the reserved time
required_break_of(reserved_time) ==
    [offset |-> reserved_time.time.kind = "Offset",
     earliest |-> IF reserved_time.time.kind = "Offset" THEN reserved_time.time.start
                  ELSE format_time(reserved_time.time.start),
     latest |-> IF reserved_time.time.kind = "Offset" THEN reserved_time.time.end
                ELSE format_time(reserved_time.time.end),
     duration |-> reserved_time.duration]

vehicle_shift_breaks == [n \in DOMAIN actor.reserved |-> required_break_of(actor.reserved[n])]

is_job_stop(stop) ==
    \E j \in DOMAIN stop.activities :
        stop.activities[j].activity_type \notin {"departure", "arrival"}

\* get_first_job_arrival: the arrival of the first stop with an activity that is
\* neither departure nor arrival
get_first_job_arrival(tour) ==
    IF \E i \in DOMAIN tour.stops : is_job_stop(tour.stops[i])
    THEN Some(parse_time(
             tour.stops[first_or({i \in DOMAIN tour.stops : is_job_stop(tour.stops[i])}, 1)]
                 .time.arrival))
    ELSE None

first_stop_departure(tour) == parse_time(tour.stops[1].time.departure)
last_stop_arrival(tour) == parse_time(tour.stops[Len(tour.stops)].time.arrival)

\* lines 182-187
checker_offset_anchor(tour, cost_span) ==
    IF IsFirstJobSpan(cost_span)
    THEN IF get_first_job_arrival(tour).some THEN get_first_job_arrival(tour).value
         ELSE first_stop_departure(tour)
    ELSE first_stop_departure(tour)

\* get_break_time_window for a required break
get_break_time_window(tour, vehicle_break, cost_span) ==
    IF vehicle_break.offset
    THEN TimeWindow(checker_offset_anchor(tour, cost_span) + vehicle_break.earliest,
                    checker_offset_anchor(tour, cost_span) + vehicle_break.latest
                        + vehicle_break.duration)
    ELSE TimeWindow(parse_time(vehicle_break.earliest),
                    parse_time(vehicle_break.latest) + vehicle_break.duration)

\* Variant of should_assign that expects every break whose window meets the tour
\* window, also one that ends after the tour arrives: what C20 must tell apart
\* from the code.
should_assign_when_intersecting(break_tw, tour_tw) ==
    intersects(break_tw, tour_tw)

\* line 114
should_assign(break_tw, tour_tw) ==
    intersects(break_tw, tour_tw) /\ break_tw.end < tour_tw.end

\* lines 95-119
expected_break_count(tour, cost_span) ==
    Cardinality({n \in DOMAIN vehicle_shift_breaks :
        should_assign(get_break_time_window(tour, vehicle_shift_breaks[n], cost_span),
                      TimeWindow(first_stop_departure(tour), last_stop_arrival(tour)))})

\* lines 23-28
actual_break_count(tour) ==
    Cardinality({p \in (DOMAIN tour.stops) \X (1..(MaxJobs + 3)) :
        /\ p[2] <= Len(tour.stops[p[1]].activities)
        /\ tour.stops[p[1]].activities[p[2]].activity_type = "break"})

\* lines 121-131: Ok(()) when the expected breaks are as many as those of the tour
\* and its break violations
count_check_passes(tour, cost_span, break_violation_count) ==
    expected_break_count(tour, cost_span)
        = actual_break_count(tour) + break_violation_count

(***************************************************************************)
(* Properties of the break writer and of the break checker                 *)
(***************************************************************************)
ActivitiesOf(tour) ==
    {p \in (DOMAIN tour.stops) \X (1..(MaxJobs + 3)) :
        p[2] <= Len(tour.stops[p[1]].activities)}
ActivityAt(tour, p) == tour.stops[p[1]].activities[p[2]]
BreaksOf(tour) == {p \in ActivitiesOf(tour) : ActivityAt(tour, p).activity_type = "break"}
JobsOf(tour) == {p \in ActivitiesOf(tour) : ActivityAt(tour, p).activity_type = "delivery"}
TransitStopsOf(tour) == {i \in DOMAIN tour.stops : tour.stops[i].kind = "Transit"}
TimeOf(tour, p) == interval_time_window(ActivityAt(tour, p).time[1])

\* The tour a second run of the break writer leaves of the tour the first emitted
EmittedAgain == insert_reserved_times_as_breaks(route_ctx.tour, op.emitted)

\* C17: a second insert_reserved_times_as_breaks on the tour the first emitted, for
\* the same route and reserved times, adds no break activity and no transit stop and
\* leaves the statistic as it was.
C17_BreakWriterIdempotent ==
    op.name = "write" =>
        /\ Cardinality(BreaksOf(EmittedAgain)) = Cardinality(BreaksOf(op.emitted))
        /\ Cardinality(TransitStopsOf(EmittedAgain)) = Cardinality(TransitStopsOf(op.emitted))
        /\ EmittedAgain.statistic = op.emitted.statistic

\* The break interval of the n-th reserved time of the actor, as the writer resolves it
ReservedInterval(n) == reserved_tw_of(actor.reserved[n], get_offset_anchor(route_ctx.tour))

OverlapsShift(n) == overlaps_with_duration(ReservedInterval(n), shift_time(route_ctx.tour))

\* C18: the emitted tour holds exactly one break activity for each reserved time
\* whose break interval overlaps the shift [start.departure, end.arrival] with
\* positive length, and none for one that only touches the shift or lies outside.
C18_OneBreakPerReservedTime ==
    op.name = "write" =>
        Cardinality(BreaksOf(op.emitted))
            = Cardinality({n \in DOMAIN actor.reserved : OverlapsShift(n)})

JobTimes(tour) == {<<ActivityAt(tour, p).job_id, TimeOf(tour, p)>> : p \in JobsOf(tour)}

BreakClearOfJobs(tour, b) ==
    \A p \in JobsOf(tour) :
        p[1] = b[1] => ~overlaps_with_duration(TimeOf(tour, p), TimeOf(tour, b))

BreakInsideStop(tour, b) ==
    /\ stop_time_window(tour.stops[b[1]]).start <= TimeOf(tour, b).start
    /\ TimeOf(tour, b).end <= stop_time_window(tour.stops[b[1]]).end

\* C19: a break in a Point stop of the emitted tour overlaps no job activity of the
\* stop with positive duration, keeps the duration of its reserved time and lies
\* inside the stop's [arrival, departure]; no job activity has another interval than
\* before the breaks were placed.
C19_BreakBesideJobs ==
    op.name = "write" =>
        /\ \A b \in BreaksOf(op.emitted) :
              op.emitted.stops[b[1]].kind = "Point" =>
                  /\ BreakClearOfJobs(op.emitted, b)
                  /\ BreakInsideStop(op.emitted, b)
                  /\ \E n \in DOMAIN actor.reserved :
                        duration(TimeOf(op.emitted, b)) = actor.reserved[n].duration
        /\ JobTimes(op.emitted) = JobTimes(op.created)

\* The tour window and the anchor of a tour, read off its stops
TourWindow(tour) ==
    TimeWindow(parse_time(tour.stops[1].time.departure),
               parse_time(tour.stops[Len(tour.stops)].time.arrival))

StopsWithJob(tour) == {p[1] : p \in JobsOf(tour)}

TourAnchor(tour) ==
    IF IsFirstJobSpan(actor.cost_span) /\ StopsWithJob(tour) # {}
    THEN parse_time(tour.stops[SetMin(StopsWithJob(tour))].time.arrival)
    ELSE parse_time(tour.stops[1].time.departure)

\* [earliest, latest + duration] of the n-th required break of the shift
BreakWindow(tour, n) ==
    TimeWindow(to_time_window(actor.reserved[n].time, TourAnchor(tour)).start,
               to_time_window(actor.reserved[n].time, TourAnchor(tour)).end
                   + actor.reserved[n].duration)

Expected(tour, n) ==
    /\ intersects(BreakWindow(tour, n), TourWindow(tour))
    /\ BreakWindow(tour, n).end < TourWindow(tour).end

AdvanceCurrent == StartDeparture(before)
AdvanceUpper == try_advance_departure_time(before, op.whole)
AdvanceCandidates ==
    compute_critical_departures(op.calls[1].rc.tour, AdvanceCurrent, AdvanceUpper.value)
TriedCandidates == {op.calls[k].departure : k \in 2..Len(op.calls)} \ {AdvanceCurrent}
LastCall == op.calls[Len(op.calls)]

\* C24: advance_departure_time tries the target first; only when the probe rejects
\* it does it try the critical candidates, which lie strictly between the departure
\* before the call and the target, from the highest down, and it commits the first
\* the probe accepts, so that every larger candidate was tried and rejected; when
\* none is accepted its last update_route_departure is at the departure before the
\* call.
C24_AdvanceOrdering ==
    op.name = "advance" /\ op.calls # <<>> =>
        /\ AdvanceUpper.some
        /\ op.calls[1].departure = AdvanceUpper.value
        /\ \A k \in 1..(Len(op.calls) - 1) : ~op.calls[k].feasible
        /\ \A k \in 2..Len(op.calls) :
              /\ op.calls[k].departure < op.calls[k - 1].departure
              /\ \/ /\ op.calls[k].departure \in AdvanceCandidates
                    /\ AdvanceCurrent < op.calls[k].departure
                    /\ op.calls[k].departure < AdvanceUpper.value
                 \/ /\ k = Len(op.calls)
                    /\ op.calls[k].departure = AdvanceCurrent
                    /\ TriedCandidates = AdvanceCandidates
        /\ LastCall.departure \in AdvanceCandidates =>
              /\ LastCall.feasible
              /\ TriedCandidates = {c \in AdvanceCandidates : c >= LastCall.departure}
        /\ StartDeparture(route_ctx) = LastCall.departure

\* The target and the highest candidate were rejected and a lower candidate was
\* committed
C24_LowerCandidateCommitted ==
    /\ op.name = "advance"
    /\ Len(op.calls) >= 3
    /\ LastCall.feasible
    /\ LastCall.departure \in AdvanceCandidates

\* The candidates as the offset spans the activities chose and the absolute windows
\* of the job activities give them
ChosenSpan(a) == place_def(a).times[a.chosen]
ChosenOffsets(tour) ==
    {<<ChosenSpan(tour[i]).start, ChosenSpan(tour[i]).end, tour[i].place.duration>> :
        i \in {i \in DOMAIN tour : FromOffsetSpan(tour[i])}}
AbsoluteBoundaries(tour) ==
    UNION {{tour[i].place.time.start, tour[i].place.time.end} :
        i \in {i \in DOMAIN tour : HasJob(tour[i]) /\ ~FromOffsetSpan(tour[i])}}
Perturbed(d) == {d - EPSILON, d, d + EPSILON}
CandidatesOfChosenSpans(tour, current, upper) ==
    {v \in UNION {Perturbed(b - o[2] - o[3]) \cup Perturbed(b - o[2]) \cup Perturbed(b - o[1]) :
                    <<o, b>> \in ChosenOffsets(tour) \X AbsoluteBoundaries(tour)} :
        current < v /\ v < upper}

\* C25: compute_critical_departures returns exactly the values b - o_e - dur,
\* b - o_e, b - o_s and each of them +/- EPSILON strictly between current and upper,
\* over the activities whose chosen window is an offset span (o_s, o_e) with place
\* duration dur and the endpoints b of the absolute windows of the job activities;
\* a span that is not the chosen one contributes nothing, and without an
\* offset-derived window the set is empty.
C25_CriticalDeparturesOfChosenSpans ==
    op.name = "advance" /\ Len(op.calls) >= 2 =>
        AdvanceCandidates
            = CandidatesOfChosenSpans(op.calls[1].rc.tour, AdvanceCurrent, AdvanceUpper.value)

\* The route before the call with a duration limit that leaves the given room
\* above its total duration; no limit is limit_duration = FloatMax
DurationRooms == {0, EPSILON, U}
WithRoom(rc, room) == [rc EXCEPT !.limit_duration = rc.total_duration + room]
RecedeInputs == {before} \cup {WithRoom(before, room) : room \in DurationRooms}

SetMinimum(S) == CHOOSE x \in S : \A y \in S : x <= y

\* m of the claim
RecedeRoom(rc) ==
    SetMinimum({rc.latest_arrival[2] - Get(rc.tour, 1).schedule.arrival,
                StartDeparture(rc) - actor.start_earliest}
               \cup (IF rc.limit_duration = FloatMax THEN {}
                     ELSE {rc.limit_duration - rc.total_duration}))

RecedeAccepted(rc) ==
    /\ Total(rc.tour) >= 2
    /\ Len(rc.latest_arrival) >= 2
    /\ RecedeRoom(rc) > 0
    /\ is_schedule_feasible(
           update_route_departure(rc, StartDeparture(rc) - RecedeRoom(rc)).tour)

\* C26: with m the least of the slack at activity 1, the room down to the earliest
\* departure and, when a duration limit is set, the room up to it:
\* recede_departure_time ends with the start departure decreased by exactly m when
\* m > 0 and the probe accepts the route at that departure, and with the start
\* departure it had before the call otherwise.
C26_RecedeByMaxChange ==
    op.name = "recede" =>
        \A rc \in RecedeInputs :
            StartDeparture(recede_departure_time(rc)) =
                IF RecedeAccepted(rc) THEN StartDeparture(rc) - RecedeRoom(rc)
                ELSE StartDeparture(rc)

\* A recede that the duration limit alone bounds and the probe accepts
C26_RecededToDurationLimit ==
    /\ op.name = "recede"
    /\ Len(before.latest_arrival) >= 2
    /\ \E rc \in RecedeInputs :
          /\ rc.limit_duration # FloatMax
          /\ RecedeAccepted(rc)
          /\ RecedeRoom(rc) < RecedeRoom(before)
          /\ StartDeparture(recede_departure_time(rc)) < StartDeparture(rc)

(***************************************************************************)
(* Properties of the route state                                           *)
(***************************************************************************)
OwnWaiting(a) == Max(0, a.place.time.start - a.schedule.arrival)

RECURSIVE WaitingFrom(_, _)
WaitingFrom(tour, i) ==
    IF i >= Total(tour) THEN 0
    ELSE (IF HasJob(Get(tour, i)) THEN OwnWaiting(Get(tour, i)) ELSE 0)
         + WaitingFrom(tour, i + 1)

StateSlots(tour) == IF HasJob(TourEnd(tour)) THEN Total(tour) ELSE Total(tour) - 1

\* C27: after every update_route_schedule latest_arrival and waiting_time have one
\* slot per activity, the last activity left out when it carries no job; the slots
\* of jobless activities hold 0 and the waiting_time slot of a job activity holds
\* the waiting of the job activities from it onward.
C27_StateVectorsAligned ==
    \A rc \in UpdatedContexts :
        /\ Len(rc.latest_arrival) = StateSlots(rc.tour)
        /\ Len(rc.waiting_time) = StateSlots(rc.tour)
        /\ \A i \in 0..(StateSlots(rc.tour) - 1) :
              IF HasJob(Get(rc.tour, i))
              THEN rc.waiting_time[i + 1] = WaitingFrom(rc.tour, i)
              ELSE rc.latest_arrival[i + 1] = 0 /\ rc.waiting_time[i + 1] = 0

\* A closed tour whose first job waits and carries the waiting of the second as well
C27_WaitingOfLaterJobCarried ==
    /\ op.name \in {"insert", "update"}
    /\ actor.has_end
    /\ JobCount(route_ctx.tour) = 2
    /\ OwnWaiting(Get(route_ctx.tour, 1)) > 0
    /\ route_ctx.waiting_time[2] > OwnWaiting(Get(route_ctx.tour, 1))

(***************************************************************************)
(* Properties of the break statistics                                      *)
(***************************************************************************)
RECURSIVE BreakDurations(_, _)
BreakDurations(tour, breaks) ==
    IF breaks = {} THEN 0
    ELSE duration(TimeOf(tour, CHOOSE b \in breaks : TRUE))
         + BreakDurations(tour, breaks \ {CHOOSE b \in breaks : TRUE})

BreakTimeAdded == op.emitted.statistic.break_time - op.created.statistic.break_time

\* C28: what insert_reserved_times_as_breaks adds to statistic.times.break_time is
\* the total duration of the break activities it put into the tour; a reserved time
\* for which it put none adds nothing.
C28_BreakTimeOfInsertedBreaks ==
    op.name = "write" =>
        parse_time(BreakTimeAdded) = BreakDurations(op.emitted, BreaksOf(op.emitted))

(***************************************************************************)
(* Properties of the departure optimizer's writes                          *)
(***************************************************************************)
\* C29: every departure at which advance_departure_time or recede_departure_time
\* calls update_route_departure, and so lets update_schedules write the schedules,
\* is one at which estimate_departure rejects no activity.
C29_WritesOnlyFeasibleDepartures ==
    op.name \in {"advance", "recede"} =>
        \A k \in 1..Len(op.calls) : op.calls[k].feasible

AllowedDeparture(departure) ==
    actor.start_earliest <= departure /\ departure <= actor.start_latest

\* C30: when the start departure lies in the actor's [earliest, latest] before
\* advance_departure_time or recede_departure_time, every departure the call writes,
\* and the one it leaves, lies in it too.
C30_DepartureInsideActorBounds ==
    op.name \in {"advance", "recede"} /\ AllowedDeparture(StartDeparture(before)) =>
        /\ AllowedDeparture(StartDeparture(route_ctx))
        /\ \A k \in 1..Len(op.calls) : AllowedDeparture(op.calls[k].departure)

\* An advance towards the first job whose window opens too late for the actor:
\* the call commits the actor's latest departure
C30_AdvanceStoppedAtLatest ==
    /\ op.name = "advance"
    /\ ~op.whole
    /\ op.calls # <<>>
    /\ AllowedDeparture(StartDeparture(before))
    /\ Get(before.tour, 1).place.time.start
         - TransportDurationDeparture(before.tour, TourStart(before.tour).place.location,
               Get(before.tour, 1).place.location, StartDeparture(before))
         > actor.start_latest
    /\ StartDeparture(route_ctx) = actor.start_latest

(***************************************************************************)
(* Collaborators of the feature hooks (sections 4.9 and 6 of the           *)
(* specification): the fleet, the transport's approximated distance, the   *)
(* job target and the compatibility predicate                              *)
(***************************************************************************)
\* largest number of routes in a solution
MaxRoutes == 2

\* distance_approx(profile, a, b): a static distance per profile, here the distance
\* on the line scaled by the profile's matrix (profile 1 has the longer roads)
distance_approx(profile, from, to) == Abs(from - to) * (profile + 1)

\* Actor { vehicle.profile, detail.start }: start is None or Some(location)
FleetActor(id, profile, start) == [id |-> id, profile |-> profile, start |-> start]

\* self.actors of the vehicle distance feature, in fleet order
Fleet ==
    <<FleetActor(1, 0, Some(0)), FleetActor(2, 1, Some(6)), FleetActor(3, 1, None)>>

\* A single job: its location, its target_nearest_distance and the actors the
\* compatibility predicate accepts for it
FeatureJob(location, target, allowed) ==
    [location |-> location, target |-> target, allowed |-> allowed]

FeatureJobs ==
    {FeatureJob(1, None, {1, 2}), FeatureJob(1, Some(2), {2}),
     FeatureJob(5, Some(2), {1, 2}), FeatureJob(3, Some(0), {3})}

job_target_fn(job) == job.target
compatibility_fn(job, fleet_actor) == fleet_actor.id \in job.allowed

FeatureActivity(location, job) == [place |-> [location |-> location], job |-> job]

\* The tour of a route of the actor with the jobs in order, between the start and
\* the end of the actor when it has them
feature_tour(fleet_actor, jobs) ==
    (IF fleet_actor.start.some
     THEN <<FeatureActivity(fleet_actor.start.value, NoJob)>> ELSE <<>>)
    \o [i \in 1..Len(jobs) |-> FeatureActivity(jobs[i].location, jobs[i])]
    \o (IF fleet_actor.start.some
        THEN <<FeatureActivity(fleet_actor.start.value, NoJob)>> ELSE <<>>)

\* RouteContext: the route, the two feature slots of its state, and is_stale
FeatureRouteContext(fleet_actor, tour, is_stale, nearest, vehicle) ==
    [actor |-> fleet_actor, tour |-> tour, is_stale |-> is_stale,
     nearest_distance_route_data |-> nearest,
     vehicle_distance_route_data |-> vehicle]

RECURSIVE sum(_, _)
sum(costs, i) == IF i > Len(costs) THEN 0 ELSE costs[i] + sum(costs, i + 1)

(***************************************************************************)
(* nearest_distance.rs                                                     *)
(***************************************************************************)
\* lines 84-88: the activities that carry a job, in tour order
job_activities(tour) == SelectSeq(tour, HasJob)

\* Variant of min_dist that does not leave out the activity itself: what C21 must
\* tell apart from the code.
min_dist_with_itself(profile, activities, i) ==
    SetMinimum({distance_approx(profile, activities[i].place.location,
                                activities[j].place.location) :
                    j \in DOMAIN activities})

\* lines 105-111, on two activities or more
min_dist(profile, activities, i) ==
    SetMinimum({distance_approx(profile, activities[i].place.location,
                                activities[j].place.location) :
                    j \in DOMAIN activities \ {i}})

\* lines 103, 113-115
nearest_penalty_at(profile, activities, i, target) ==
    IF ~target.some THEN 0
    ELSE IF min_dist(profile, activities, i) > target.value
         THEN min_dist(profile, activities, i) - target.value
         ELSE 0

\* lines 98-118
RECURSIVE nearest_total_penalty(_, _, _, _)
nearest_total_penalty(profile, activities, i, total_penalty) ==
    IF i > Len(activities) THEN total_penalty
    ELSE nearest_total_penalty(profile, activities, i + 1,
             total_penalty
             + nearest_penalty_at(profile, activities, i,
                                  job_target_fn(activities[i].job)))

\* NearestDistanceObjective::compute_route_penalty
NearestDistanceObjective_compute_route_penalty(rc) ==
    IF Len(job_activities(rc.tour)) <= 1 THEN 0
    ELSE nearest_total_penalty(rc.actor.profile, job_activities(rc.tour), 1, 0)

\* NearestDistanceState::compute_route_penalty
NearestDistanceState_compute_route_penalty(rc) ==
    IF Len(job_activities(rc.tour)) <= 1 THEN 0
    ELSE nearest_total_penalty(rc.actor.profile, job_activities(rc.tour), 1, 0)

\* NearestDistanceObjective::fitness
NearestDistanceObjective_fitness(solution) ==
    IF solution.state.nearest_distance_penalty.some
    THEN solution.state.nearest_distance_penalty.value
    ELSE sum([r \in DOMAIN solution.routes |->
                 NearestDistanceObjective_compute_route_penalty(solution.routes[r])], 1)

\* NearestDistanceState::accept_route_state
NearestDistanceState_accept_route_state(rc) ==
    [rc EXCEPT !.nearest_distance_route_data =
                   Some(NearestDistanceState_compute_route_penalty(rc))]

\* Variant of nearest_update_stale_routes that refreshes no route: what C23 must
\* tell apart from the code.
nearest_update_no_routes(routes) == routes

\* lines 240-244
nearest_update_stale_routes(routes) ==
    [r \in DOMAIN routes |->
        IF routes[r].is_stale THEN NearestDistanceState_accept_route_state(routes[r])
        ELSE routes[r]]

\* lines 247-251
nearest_total(routes) ==
    sum([r \in DOMAIN routes |->
            IF routes[r].nearest_distance_route_data.some
            THEN routes[r].nearest_distance_route_data.value ELSE 0], 1)

nearest_accepted(solution, routes) ==
    [routes |-> routes,
     state |-> [solution.state EXCEPT
                   !.nearest_distance_penalty = Some(nearest_total(routes))]]

\* NearestDistanceState::accept_solution_state
NearestDistanceState_accept_solution_state(solution) ==
    nearest_accepted(solution, nearest_update_stale_routes(solution.routes))

(***************************************************************************)
(* vehicle_distance.rs                                                     *)
(***************************************************************************)
\* line 107: &actors[0].vehicle.profile
nearest_vehicle_profile(actors, profile) == actors[1].profile

\* lines 103-107: the distances to the starts of the compatible actors
compatible_vehicle_dists(job_loc, job, actors, profile) ==
    {distance_approx(nearest_vehicle_profile(actors, profile), job_loc,
                     actors[k].start.value) :
        k \in {n \in DOMAIN actors :
                  compatibility_fn(job, actors[n]) /\ actors[n].start.some}}

\* find_nearest_compatible_vehicle_dist; profile is the profile of the route the
\* caller works on, which the function is not given
find_nearest_compatible_vehicle_dist(job_loc, job, actors, profile) ==
    IF compatible_vehicle_dists(job_loc, job, actors, profile) = {} THEN None
    ELSE Some(SetMinimum(compatible_vehicle_dists(job_loc, job, actors, profile)))

unwrap_or(option, default) == IF option.some THEN option.value ELSE default

\* lines 135-146
vehicle_penalty_at(profile, assigned_start, activity) ==
    Max(distance_approx(profile, activity.place.location, assigned_start)
        - unwrap_or(find_nearest_compatible_vehicle_dist(activity.place.location,
                        activity.job, Fleet, profile),
                    distance_approx(profile, activity.place.location, assigned_start)),
        0)

\* lines 128-150
RECURSIVE vehicle_total_penalty(_, _, _, _, _)
vehicle_total_penalty(profile, assigned_start, tour, i, total_penalty) ==
    IF i > Len(tour) THEN total_penalty
    ELSE vehicle_total_penalty(profile, assigned_start, tour, i + 1,
             IF ~HasJob(tour[i]) THEN total_penalty
             ELSE total_penalty + vehicle_penalty_at(profile, assigned_start, tour[i]))

\* VehicleDistanceObjective::compute_route_penalty
VehicleDistanceObjective_compute_route_penalty(rc) ==
    IF ~rc.actor.start.some THEN 0
    ELSE vehicle_total_penalty(rc.actor.profile, rc.actor.start.value, rc.tour, 1, 0)

\* VehicleDistanceState::compute_route_penalty
VehicleDistanceState_compute_route_penalty(rc) ==
    IF ~rc.actor.start.some THEN 0
    ELSE vehicle_total_penalty(rc.actor.profile, rc.actor.start.value, rc.tour, 1, 0)

\* VehicleDistanceObjective::fitness
VehicleDistanceObjective_fitness(solution) ==
    IF solution.state.vehicle_distance_penalty.some
    THEN solution.state.vehicle_distance_penalty.value
    ELSE sum([r \in DOMAIN solution.routes |->
                 VehicleDistanceObjective_compute_route_penalty(solution.routes[r])], 1)

\* VehicleDistanceState::accept_route_state
VehicleDistanceState_accept_route_state(rc) ==
    [rc EXCEPT !.vehicle_distance_route_data =
                   Some(VehicleDistanceState_compute_route_penalty(rc))]

\* line 247
vehicle_update_stale_routes(routes) ==
    [r \in DOMAIN routes |->
        IF routes[r].is_stale THEN VehicleDistanceState_accept_route_state(routes[r])
        ELSE routes[r]]

\* lines 249-253
vehicle_total(routes) ==
    sum([r \in DOMAIN routes |->
            IF routes[r].vehicle_distance_route_data.some
            THEN routes[r].vehicle_distance_route_data.value ELSE 0], 1)

vehicle_accepted(solution, routes) ==
    [routes |-> routes,
     state |-> [solution.state EXCEPT
                   !.vehicle_distance_penalty = Some(vehicle_total(routes))]]

\* VehicleDistanceState::accept_solution_state
VehicleDistanceState_accept_solution_state(solution) ==
    vehicle_accepted(solution, vehicle_update_stale_routes(solution.routes))

(***************************************************************************)
(* The solution under the two features: routes are added, jobs enter and   *)
(* leave them, and the feature states are accepted                         *)
(***************************************************************************)
\* A route fresh from the registry, of an actor with a start: no feature data,
\* stale
new_feature_route(fleet_actor) ==
    FeatureRouteContext(fleet_actor, feature_tour(fleet_actor, <<>>), TRUE, None, None)

JobsOfRoute(rc) ==
    [i \in 1..Len(job_activities(rc.tour)) |-> job_activities(rc.tour)[i].job]

Assigned(solution) ==
    UNION {{solution.routes[r].tour[i].job : i \in DOMAIN solution.routes[r].tour} :
              r \in DOMAIN solution.routes} \ {NoJob}

\* route_mut(): any mutable access to the route marks the route context stale
with_jobs(rc, jobs) ==
    [rc EXCEPT !.tour = feature_tour(rc.actor, jobs), !.is_stale = TRUE]

without_job(jobs, i) == SubSeq(jobs, 1, i - 1) \o SubSeq(jobs, i + 1, Len(jobs))

without_route(routes, r) == SubSeq(routes, 1, r - 1) \o SubSeq(routes, r + 1, Len(routes))

\* The goal's accept_solution_state: the features in order, then every route is
\* marked as not stale
mark_stale_false(solution) ==
    [solution EXCEPT !.routes = [r \in DOMAIN solution.routes |->
                                    [solution.routes[r] EXCEPT !.is_stale = FALSE]]]

accept_solution_state(solution) ==
    mark_stale_false(
        VehicleDistanceState_accept_solution_state(
            NearestDistanceState_accept_solution_state(solution)))

\* The goal's accept_route_state on one route: the features in order
accept_route_state(rc) ==
    VehicleDistanceState_accept_route_state(NearestDistanceState_accept_route_state(rc))

InitFeatures ==
    /\ actor \in {a \in Actors : a.cost_span = "DepotToDepot" /\ a.has_end
                                 /\ a.start_latest = FloatMax /\ a.reserved = <<>>}
    /\ route_ctx = new_route_ctx
    /\ op = Op("new", FALSE, <<>>)
    /\ before = route_ctx
    /\ solution_ctx = EmptySolution

Changed(solution, name) ==
    /\ solution_ctx' = solution
    /\ op' = Op(name, FALSE, <<>>)
    /\ UNCHANGED <<actor, route_ctx, before>>

AddRoute ==
    /\ Len(solution_ctx.routes) < MaxRoutes
    /\ \E k \in DOMAIN Fleet :
          /\ Fleet[k].start.some
          /\ \A r \in DOMAIN solution_ctx.routes : solution_ctx.routes[r].actor # Fleet[k]
          /\ Changed([solution_ctx EXCEPT
                         !.routes = Append(@, new_feature_route(Fleet[k]))], "mutation")

\* An insertion: the job enters the route, which marks it stale, and the route
\* state is accepted
InsertIntoRoute ==
    \E r \in DOMAIN solution_ctx.routes, job \in FeatureJobs \ Assigned(solution_ctx) :
        /\ Len(JobsOfRoute(solution_ctx.routes[r])) < MaxJobs
        /\ Changed([solution_ctx EXCEPT
                       !.routes[r] = accept_route_state(with_jobs(@, Append(JobsOfRoute(@), job)))],
                   "mutation")

RemoveFromRoute ==
    \E r \in DOMAIN solution_ctx.routes :
        \E i \in 1..Len(JobsOfRoute(solution_ctx.routes[r])) :
            Changed([solution_ctx EXCEPT
                        !.routes[r] = with_jobs(@, without_job(JobsOfRoute(@), i))],
                    "mutation")

RemoveRoute ==
    \E r \in DOMAIN solution_ctx.routes :
        /\ JobsOfRoute(solution_ctx.routes[r]) = <<>>
        /\ Changed([solution_ctx EXCEPT !.routes = without_route(@, r)], "mutation")

AcceptSolutionState ==
    /\ op.name # "accept"
    /\ Changed(accept_solution_state(solution_ctx), "accept")

NextFeatures ==
    \/ AddRoute
    \/ InsertIntoRoute
    \/ RemoveFromRoute
    \/ RemoveRoute
    \/ AcceptSolutionState

SpecFeatures == InitFeatures /\ [][NextFeatures]_vars

(***************************************************************************)
(* Properties of the feature hooks                                         *)
(***************************************************************************)
Routes == {solution_ctx.routes[r] : r \in DOMAIN solution_ctx.routes}

RECURSIVE SumOver(_, _)
SumOver(f, S) ==
    IF S = {} THEN 0
    ELSE f[CHOOSE x \in S : TRUE] + SumOver(f, S \ {CHOOSE x \in S : TRUE})

JobPositions(rc) == {i \in DOMAIN rc.tour : HasJob(rc.tour[i])}

\* d: the least approximated distance to another job activity of the route
NearestOther(rc, i) ==
    SetMinimum({distance_approx(rc.actor.profile, rc.tour[i].place.location,
                                rc.tour[j].place.location) :
                    j \in JobPositions(rc) \ {i}})

NearestDistancePenalty(rc) ==
    IF Cardinality(JobPositions(rc)) <= 1 THEN 0
    ELSE SumOver([i \in JobPositions(rc) |->
                     IF rc.tour[i].job.target.some
                     THEN Max(0, NearestOther(rc, i) - rc.tour[i].job.target.value)
                     ELSE 0],
                 JobPositions(rc))

CompatibleStarts(job) ==
    {Fleet[k].start.value :
        k \in {n \in DOMAIN Fleet : compatibility_fn(job, Fleet[n]) /\ Fleet[n].start.some}}

\* d_a and d_n, both with the profile of the route's vehicle
AssignedDistance(rc, i) ==
    distance_approx(rc.actor.profile, rc.tour[i].place.location, rc.actor.start.value)

NearestVehicleDistance(rc, i) ==
    SetMinimum({distance_approx(rc.actor.profile, rc.tour[i].place.location, start) :
                   start \in CompatibleStarts(rc.tour[i].job)})

VehicleDistancePenalty(rc) ==
    SumOver([i \in JobPositions(rc) |->
                IF CompatibleStarts(rc.tour[i].job) = {} THEN 0
                ELSE Max(0, AssignedDistance(rc, i) - NearestVehicleDistance(rc, i))],
            JobPositions(rc))

\* C22: the vehicle distance penalty of a route is the sum over its job activities
\* of max(0, d_a - d_n), d_a the approximated distance from the job to the start of
\* the route's actor and d_n the least approximated distance from the job to the
\* start of a fleet actor the compatibility predicate accepts, both with the profile
\* of the route's vehicle; a job with no compatible actor adds 0.
C22_VehicleDistancePenalty ==
    \A rc \in Routes :
        /\ VehicleDistanceObjective_compute_route_penalty(rc) = VehicleDistancePenalty(rc)
        /\ VehicleDistanceState_compute_route_penalty(rc) = VehicleDistancePenalty(rc)

NearestDistanceRecomputed ==
    sum([r \in DOMAIN solution_ctx.routes |->
            NearestDistanceObjective_compute_route_penalty(solution_ctx.routes[r])], 1)

VehicleDistanceRecomputed ==
    sum([r \in DOMAIN solution_ctx.routes |->
            VehicleDistanceObjective_compute_route_penalty(solution_ctx.routes[r])], 1)

\* C23: right after accept_solution_state, whatever mutations came before it, the
\* fitness of each feature is the cached solution total and equals the sum over the
\* routes of the recomputed route penalty; while no total is cached, fitness is that
\* recomputed sum.
C23_FeatureCacheCoherent ==
    /\ op.name = "accept" =>
          /\ solution_ctx.state.nearest_distance_penalty.some
          /\ solution_ctx.state.vehicle_distance_penalty.some
          /\ NearestDistanceObjective_fitness(solution_ctx)
                = solution_ctx.state.nearest_distance_penalty.value
          /\ VehicleDistanceObjective_fitness(solution_ctx)
                = solution_ctx.state.vehicle_distance_penalty.value
          /\ NearestDistanceObjective_fitness(solution_ctx) = NearestDistanceRecomputed
          /\ VehicleDistanceObjective_fitness(solution_ctx) = VehicleDistanceRecomputed
    /\ ~solution_ctx.state.nearest_distance_penalty.some =>
          NearestDistanceObjective_fitness(solution_ctx) = NearestDistanceRecomputed
    /\ ~solution_ctx.state.vehicle_distance_penalty.some =>
          VehicleDistanceObjective_fitness(solution_ctx) = VehicleDistanceRecomputed

\* An accept on a solution of two routes, one of them with a single job and so
\* without nearest distance penalty, that wrote a positive total for both features
C23_AcceptedAfterRemoval ==
    /\ op.name = "accept"
    /\ Len(solution_ctx.routes) = 2
    /\ \E rc \in Routes :
          /\ Cardinality(JobPositions(rc)) = 1
          /\ rc.nearest_distance_route_data = Some(0)
    /\ NearestDistanceObjective_fitness(solution_ctx) > 0
    /\ VehicleDistanceObjective_fitness(solution_ctx) > 0

====
